---- MODULE Spec2Model ----
(***************************************************************************)
(* A model of the enquete importer: the two programs of the repository,    *)
(* src/enquetes_importer.py ("EI") and src/google_spreadsheet.py ("GS").   *)
(*                                                                         *)
(* Text is a sequence of one-character tokens.  Tokens that stand for a    *)
(* non-ASCII character are named: "F0".."F9" full-width digits, "IS" the   *)
(* ideographic space U+3000, "NEN" "GATSU" "NICHI" the Japanese year,      *)
(* month and day glyphs, "hKA" a half-width katakana and "KA" its          *)
(* full-width form, "EMOJI" a character Shift_JIS cannot encode, "REPR"    *)
(* the text str() gives for a value that is no scalar.                     *)
(* Python values are tagged records: [t |-> "none"], [t |-> "str", s],     *)
(* [t |-> "int", n], [t |-> "date", ...], [t |-> "dict", d], and an        *)
(* exception that propagates is [t |-> "raise", exc].                      *)
(***************************************************************************)
EXTENDS Integers, Sequences, FiniteSets, TLC

VARIABLES
    program,      \* which of the two programs runs: "EI" or "GS"
    config,       \* per organization, the profile names of its facilities
    pc,           \* where main is: "connect", "facility", "done", "aborted";
                  \* "key" and "keyed" before and after a key derivation,
                  \* "record" and "recorded", "resolve" and "resolved" alike
    run,          \* number of the current invocation of main
    orgIdx,       \* index of the organization being processed
    facIdx,       \* index of the next facility of that organization
    db,           \* committed rows: organization -> table -> sequence of rows
    cleared,      \* GS cleared_facilities of the current organization-run
    log,          \* worksheet reads and statements issued in this run (history)
    outcome,      \* per facility of this run: "pending", "ok", "skipped", "failed"
    snap,         \* committed rows at the end of the first run (history)
    clean,        \* no facility was skipped or failed so far (history)
    keyIn,        \* input of the derived-key computation
    keyOut,       \* its result
    recIn,        \* input of the record builder: a mapping and the cells of a row
    recOut,       \* the row of the insert buffer it builds, or the exception
    catIn,        \* input of the mapping resolver: catalog layers and a reference
    catOut        \* the mapping it resolves, or the exception

vars == <<program, config, pc, run, orgIdx, facIdx, db, cleared, log, outcome,
          snap, clean, keyIn, keyOut, recIn, recOut, catIn, catOut>>

-----------------------------------------------------------------------------
(* Python values *)

PyNone == [t |-> "none"]
PyStr(s) == [t |-> "str", s |-> s]
PyInt(n) == [t |-> "int", n |-> n]
PyDict(d) == [t |-> "dict", d |-> d]
PyList(l) == [t |-> "list", l |-> l]
Clamp(lo, hi) == [t |-> "clamp", minimum |-> lo, maximum |-> hi]
Raise(e) == [t |-> "raise", exc |-> e]
IsRaise(v) == v.t = "raise"

Range(f) == {f[i] : i \in DOMAIN f}

Digits == <<"0", "1", "2", "3", "4", "5", "6", "7", "8", "9">>
FullWidthDigits == <<"F0", "F1", "F2", "F3", "F4", "F5", "F6", "F7", "F8", "F9">>

DigitValue(c) == (CHOOSE i \in 1..10 : Digits[i] = c) - 1

\* str.isspace for the tokens of the model: U+3000 is white space too
IsSpace(c) == c \in {" ", "IS"}

RECURSIVE LStrip(_)
LStrip(s) == IF s # <<>> /\ IsSpace(Head(s)) THEN LStrip(Tail(s)) ELSE s

RECURSIVE RStrip(_)
RStrip(s) ==
    IF s # <<>> /\ IsSpace(s[Len(s)]) THEN RStrip(SubSeq(s, 1, Len(s) - 1)) ELSE s

\* jaconv.z2h(text, digit=True, ascii=True) on one character
Z2hChar(c) ==
    IF \E i \in 1..10 : FullWidthDigits[i] = c
    THEN Digits[CHOOSE i \in 1..10 : FullWidthDigits[i] = c]
    ELSE IF c = "KA" THEN "hKA" ELSE c

z2h(s) == [i \in 1..Len(s) |-> Z2hChar(s[i])]

\* jaconv.h2z(text) with its defaults: kana only, ASCII and digits kept
h2z(s) == [i \in 1..Len(s) |-> IF s[i] = "hKA" THEN "KA" ELSE s[i]]

\* str.isdecimal: non-empty and every character a decimal digit (of any width)
isdecimal(s) ==
    /\ s # <<>>
    /\ \A i \in 1..Len(s) : s[i] \in Range(Digits) \cup Range(FullWidthDigits)

\* int() of a string of ASCII decimal digits
RECURSIVE StrToInt(_)
StrToInt(s) ==
    IF s = <<>> THEN 0
    ELSE 10 * StrToInt(SubSeq(s, 1, Len(s) - 1)) + DigitValue(s[Len(s)])

\* str() of a non-negative integer
RECURSIVE NatToStr(_)
NatToStr(n) ==
    IF n < 10 THEN <<Digits[n + 1]>> ELSE NatToStr(n \div 10) \o <<Digits[(n % 10) + 1]>>

IntToStr(n) == IF n < 0 THEN <<"-">> \o NatToStr(-n) ELSE NatToStr(n)

\* normalize_cell_value: None -> "", text stripped, other values str()-ed
\* ("REPR" stands for the text str() gives for a dict or a list)
normalize_cell_value(v) ==
    CASE v.t = "none" -> <<>>
      [] v.t = "str" -> RStrip(LStrip(v.s))
      [] v.t = "int" -> IntToStr(v.n)
      [] OTHER -> <<"REPR">>

\* str.replace(old, "") for a single character
RemoveChar(s, c) == SelectSeq(s, LAMBDA x : x # c)

\* replace_invalid_shiftjis_chars
replace_invalid_shiftjis_chars(s) ==
    [i \in 1..Len(s) |-> IF s[i] = "EMOJI" THEN "?" ELSE s[i]]

\* the segments of s between occurrences of a separator
RECURSIVE Split(_, _)
Split(s, seps) ==
    IF \E i \in 1..Len(s) : s[i] \in seps
    THEN LET i == CHOOSE k \in 1..Len(s) :
                      s[k] \in seps /\ \A j \in 1..(k - 1) : s[j] \notin seps
         IN <<SubSeq(s, 1, i - 1)>> \o Split(SubSeq(s, i + 1, Len(s)), seps)
    ELSE <<s>>

-----------------------------------------------------------------------------
(* Typed field parsers *)

AllAsciiDigits(s) == \A i \in 1..Len(s) : s[i] \in Range(Digits)

\* Python's float() on the text the model can hold: an optional sign, then
\* digits with an optional fraction, or inf, or nan; anything else raises
\* ValueError.  A number is kept as sign, integer part and whether the
\* fraction is non-zero, which is all that int() and the comparisons read.
FloatOf(s) ==
    LET Number(neg, parts) ==
            LET Mantissa(ip, fp) ==
                    IF AllAsciiDigits(ip) /\ AllAsciiDigits(fp) /\ (ip # <<>> \/ fp # <<>>)
                    THEN [t |-> "float", kind |-> "num", neg |-> neg, ip |-> StrToInt(ip),
                          frac |-> \E i \in 1..Len(fp) : fp[i] # "0"]
                    ELSE Raise("ValueError")
            IN  IF Len(parts) > 2 THEN Raise("ValueError")
                ELSE Mantissa(parts[1], IF Len(parts) = 2 THEN parts[2] ELSE <<>>)
        Unsigned(neg, body) ==
            IF body = <<"i", "n", "f">> THEN [t |-> "float", kind |-> "inf", neg |-> neg]
            ELSE IF body = <<"n", "a", "n">> THEN [t |-> "float", kind |-> "nan", neg |-> neg]
            ELSE Number(neg, Split(body, {"."}))
    IN  Unsigned(s # <<>> /\ Head(s) = "-",
                 IF s # <<>> /\ Head(s) \in {"-", "+"} THEN Tail(s) ELSE s)

\* int(float): truncation toward zero; OverflowError for an infinity and
\* ValueError for a NaN
IntOfFloat(f) ==
    CASE f.kind = "inf" -> Raise("OverflowError")
      [] f.kind = "nan" -> Raise("ValueError")
      [] OTHER -> PyInt(IF f.neg THEN -f.ip ELSE f.ip)

Max(a, b) == IF a >= b THEN a ELSE b
Min(a, b) == IF a <= b THEN a ELSE b

\* the variant of parse_integer_cell that applies no clamp (C13)
parse_integer_cell_unclamped(value, clamp) ==
    LET Truncated(n) == IF IsRaise(n) /\ n.exc = "ValueError" THEN PyNone ELSE n
        Converted(f) == IF IsRaise(f) THEN PyNone ELSE Truncated(IntOfFloat(f))
        Parsed(normalized_value) ==
            IF isdecimal(normalized_value) THEN PyInt(StrToInt(normalized_value))
            ELSE Converted(FloatOf(normalized_value))
    IN  IF value = <<>> THEN PyNone
        ELSE Parsed(RemoveChar(z2h(value), ","))

\* GS parse_integer_cell(value, clamp); clamp is PyNone or Clamp(minimum, maximum)
parse_integer_cell(value, clamp) ==
    LET Clamped(parsed) ==
            IF parsed.t # "int" \/ clamp.t = "none" THEN parsed
            ELSE PyInt(Min(Max(parsed.n, clamp.minimum), clamp.maximum))
        Truncated(n) == IF IsRaise(n) /\ n.exc = "ValueError" THEN PyNone ELSE n
        Converted(f) == IF IsRaise(f) THEN PyNone ELSE Truncated(IntOfFloat(f))
        Parsed(normalized_value) ==
            IF isdecimal(normalized_value) THEN PyInt(StrToInt(normalized_value))
            ELSE Converted(FloatOf(normalized_value))
    IN  IF value = <<>> THEN PyNone
        ELSE Clamped(Parsed(RemoveChar(z2h(value), ",")))

\* EI normalize_comprehensive_evaluation(value): only float() is guarded
normalize_comprehensive_evaluation(value) ==
    LET Clamped(f) ==
            IF IsRaise(f) THEN PyNone
            ELSE IF f.kind = "nan" THEN IntOfFloat(f)
            ELSE IF f.kind = "inf" THEN PyInt(IF f.neg THEN 0 ELSE 100)
            ELSE IF f.neg \/ (f.ip = 0 /\ ~f.frac) THEN PyInt(0)
            ELSE IF f.ip >= 100 THEN PyInt(100)
            ELSE PyInt(f.ip)
    IN  Clamped(FloatOf(value))

IsLeap(y) == (y % 4 = 0 /\ y % 100 # 0) \/ y % 400 = 0

DaysIn(y, m) ==
    IF m = 2 THEN (IF IsLeap(y) THEN 29 ELSE 28)
    ELSE IF m \in {4, 6, 9, 11} THEN 30 ELSE 31

\* dateutil's parse(text, yearfirst=True, dayfirst=False) on the shapes the
\* model holds: YYYY<sep>M<sep>D with - or / between the parts, optionally
\* followed by a space and H:MM.  Other text, and a month or day out of range,
\* raise ValueError.
DateutilParse(s) ==
    LET Valid(y, m, d, hh, mi) ==
            IF /\ y >= 1 /\ m \in 1..12 /\ d \in 1..DaysIn(y, m)
               /\ hh \in 0..23 /\ mi \in 0..59
            THEN [t |-> "datetime", y |-> y, m |-> m, d |-> d, hh |-> hh, mi |-> mi]
            ELSE Raise("ValueError")
        Parts(ymd, hm) ==
            IF /\ Len(ymd) = 3
               /\ Len(ymd[1]) = 4
               /\ Len(ymd[2]) \in 1..2 /\ Len(ymd[3]) \in 1..2
               /\ \A i \in 1..3 : AllAsciiDigits(ymd[i])
               /\ Len(hm) = 2
               /\ \A i \in 1..2 : Len(hm[i]) \in 1..2 /\ AllAsciiDigits(hm[i])
            THEN Valid(StrToInt(ymd[1]), StrToInt(ymd[2]), StrToInt(ymd[3]),
                       StrToInt(hm[1]), StrToInt(hm[2]))
            ELSE Raise("ValueError")
        Halves(halves) ==
            IF Len(halves) > 2 THEN Raise("ValueError")
            ELSE Parts(Split(halves[1], {"/", "-"}),
                        IF Len(halves) = 2 THEN Split(halves[2], {":"})
                        ELSE <<<<"0">>, <<"0">>>>)
    IN  Halves(Split(s, {" "}))

\* str.replace of one character by a text
RECURSIVE ReplaceChar(_, _, _)
ReplaceChar(s, c, by) ==
    IF s = <<>> THEN <<>>
    ELSE (IF Head(s) = c THEN by ELSE <<Head(s)>>) \o ReplaceChar(Tail(s), c, by)

\* parse_datetime_value(value): a datetime, or PyNone
parse_datetime_value(value) ==
    LET Guarded(parsed) == IF IsRaise(parsed) THEN PyNone ELSE parsed
        Normalized(spaced) ==
            IF \E i \in 1..Len(spaced) : spaced[i] \in {"NEN", "GATSU", "NICHI"}
            THEN ReplaceChar(ReplaceChar(ReplaceChar(spaced, "NEN", <<"/">>),
                                         "GATSU", <<"/">>), "NICHI", <<>>)
            ELSE spaced
        Parse(text) ==
            IF text = <<>> \/ text = <<"0">> THEN PyNone
            ELSE Guarded(DateutilParse(Normalized(ReplaceChar(text, "IS", <<" ">>))))
    IN  Parse(normalize_cell_value(value))

\* datetime.date()
DateOf(dt) == [t |-> "date", y |-> dt.y, m |-> dt.m, d |-> dt.d]

RECURSIVE ZeroPad(_, _)
ZeroPad(s, width) == IF Len(s) >= width THEN s ELSE ZeroPad(<<"0">> \o s, width)

\* strftime("%Y%m%d")
strftime_Ymd(dt) ==
    ZeroPad(NatToStr(dt.y), 4) \o ZeroPad(NatToStr(dt.m), 2) \o ZeroPad(NatToStr(dt.d), 2)

-----------------------------------------------------------------------------
(* Dictionaries: a Python dict is the sequence of its [k, v] entries in    *)
(* insertion order, keys unique.                                           *)

Has(d, key) == \E i \in 1..Len(d) : d[i].k = key

\* dict.get(key), PyNone when absent
Get(d, key) == IF Has(d, key) THEN d[CHOOSE i \in 1..Len(d) : d[i].k = key].v ELSE PyNone

\* d[key] = value: an existing key keeps its position
Put(d, key, value) ==
    IF Has(d, key)
    THEN [i \in 1..Len(d) |-> IF d[i].k = key THEN [k |-> key, v |-> value] ELSE d[i]]
    ELSE Append(d, [k |-> key, v |-> value])

\* target.update(source)
RECURSIVE Update(_, _)
Update(target, source) ==
    IF source = <<>> THEN target
    ELSE Update(Put(target, Head(source).k, Head(source).v), Tail(source))

\* bool(value) for the values configuration can hold
Truthy(v) ==
    CASE v.t = "none" -> FALSE
      [] v.t = "str" -> v.s # <<>>
      [] v.t = "dict" -> v.d # <<>>
      [] v.t = "list" -> v.l # <<>>
      [] v.t = "bool" -> v.b
      [] v.t = "int" -> v.n # 0
      [] OTHER -> TRUE

StartsWith(s, prefix) ==
    Len(s) >= Len(prefix) /\ SubSeq(s, 1, Len(prefix)) = prefix

K_string == <<"s", "t", "r", "i", "n", "g">>
K_text == <<"t", "e", "x", "t">>
K_integer == <<"i", "n", "t", "e", "g", "e", "r">>
K_date == <<"d", "a", "t", "e">>
K_datetime == <<"d", "a", "t", "e", "t", "i", "m", "e">>
K_default == <<"d", "e", "f", "a", "u", "l", "t">>

FIELD_SECTION_PREFIXES == <<K_string, K_text, K_integer, K_date, K_datetime>>
CONVERSION_PREFIX == <<"c", "o", "n", "v", "e", "r", "s", "i", "o", "n">>

\* the name of a section as the key of a normalized mapping
SectionName(prefix) ==
    CASE prefix = K_string -> "string"
      [] prefix = K_text -> "text"
      [] prefix = K_integer -> "integer"
      [] prefix = K_date -> "date"
      [] prefix = K_datetime -> "datetime"

Sections == <<"string", "text", "integer", "date", "datetime">>

is_section_key(key) == \E i \in 1..5 : StartsWith(key, FIELD_SECTION_PREFIXES[i])

is_conversion_key(key) == StartsWith(key, CONVERSION_PREFIX)

is_mapping_definition_dict(value) ==
    /\ value.t = "dict"
    /\ \A i \in 1..Len(value.d) :
          is_section_key(value.d[i].k) \/ is_conversion_key(value.d[i].k)

\* GS merge_mapping_catalog(target, catalog), returning the new target
merge_mapping_catalog(target, catalog) ==
    IF ~Truthy(catalog) THEN target
    ELSE IF is_mapping_definition_dict(catalog) THEN Put(target, K_default, catalog)
    ELSE Update(target, catalog.d)

FieldSpec(db_key, csv_header, conversion, clamp) ==
    [t |-> "field", db_key |-> db_key, csv_header |-> csv_header,
     conversion |-> conversion, clamp |-> clamp]

EmptyMapping == [section \in Range(Sections) |-> <<>>]

\* mapping[section][db_key] = field: an existing db_key is overwritten in place
PutField(fields, field) ==
    IF \E i \in 1..Len(fields) : fields[i].db_key = field.db_key
    THEN [i \in 1..Len(fields) |->
             IF fields[i].db_key = field.db_key THEN field ELSE fields[i]]
    ELSE Append(fields, field)

\* mapping[section].get(db_key)
FieldOf(mapping, section, db_key) ==
    LET fields == mapping[section]
    IN  IF \E i \in 1..Len(fields) : fields[i].db_key = db_key
        THEN fields[CHOOSE i \in 1..Len(fields) : fields[i].db_key = db_key]
        ELSE PyNone

\* the fields of one section's dict, added to a section of the normalized mapping
RECURSIVE AddFields(_, _, _, _)
AddFields(fields, entries, conversion, clamp) ==
    IF entries = <<>> THEN fields
    ELSE AddFields(
             PutField(fields, FieldSpec(Head(entries).k,
                                        normalize_cell_value(Head(entries).v),
                                        conversion, clamp)),
             Tail(entries), conversion, clamp)

\* EI normalize_mapping(mapping): the five exact section names only
EI_normalize_mapping(mapping) ==
    LET value(i) == Get(mapping.d, FIELD_SECTION_PREFIXES[i])
    IN  IF mapping.t # "dict" THEN Raise("AttributeError")
        ELSE IF \E i \in 1..5 : Truthy(value(i)) /\ value(i).t # "dict"
        THEN Raise("TypeError")
        ELSE [t |-> "mapping",
              m |-> [section \in Range(Sections) |->
                        LET i == CHOOSE j \in 1..5 : Sections[j] = section
                        IN  IF Truthy(value(i))
                            THEN AddFields(<<>>, value(i).d, PyNone, PyNone)
                            ELSE <<>>]]

\* GS normalize_mapping: the conversion tables by suffix
RECURSIVE GS_conversions(_, _)
GS_conversions(entries, conversions) ==
    IF entries = <<>> THEN conversions
    ELSE LET e == Head(entries)
             suffix == SubSeq(e.k, Len(CONVERSION_PREFIX) + 1, Len(e.k))
         IN  IF ~is_conversion_key(e.k) THEN GS_conversions(Tail(entries), conversions)
             ELSE IF e.v.t = "none"
             THEN GS_conversions(Tail(entries), Put(conversions, suffix, PyDict(<<>>)))
             ELSE GS_conversions(
                      Tail(entries),
                      Put(conversions, suffix,
                          PyDict([i \in 1..Len(e.v.d) |->
                                     [k |-> normalize_cell_value(PyStr(e.v.d[i].k)),
                                      v |-> normalize_cell_value(e.v.d[i].v)]])))

\* GS normalize_mapping: the section loop
RECURSIVE GS_sections(_, _, _)
GS_sections(entries, conversions, normalized) ==
    IF entries = <<>> THEN normalized
    ELSE LET e == Head(entries)
             i == CHOOSE j \in 1..5 :
                      /\ StartsWith(e.k, FIELD_SECTION_PREFIXES[j])
                      /\ \A h \in 1..(j - 1) : ~StartsWith(e.k, FIELD_SECTION_PREFIXES[h])
             base_prefix == FIELD_SECTION_PREFIXES[i]
             section == SectionName(base_prefix)
             suffix == SubSeq(e.k, Len(base_prefix) + 1, Len(e.k))
             conversion == Get(conversions, suffix)
             clamp == IF base_prefix = K_integer /\ suffix = <<"2">>
                      THEN Clamp(0, 100) ELSE PyNone
         IN  IF ~is_section_key(e.k) THEN GS_sections(Tail(entries), conversions, normalized)
             ELSE GS_sections(
                      Tail(entries), conversions,
                      [normalized EXCEPT ![section] =
                          AddFields(@, IF e.v.t = "none" THEN <<>> ELSE e.v.d,
                                    conversion, clamp)])

\* GS normalize_mapping(mapping)
GS_normalize_mapping(mapping) ==
    IF mapping.t # "dict" THEN Raise("AttributeError")
    ELSE IF \E i \in 1..Len(mapping.d) :
               /\ is_conversion_key(mapping.d[i].k) \/ is_section_key(mapping.d[i].k)
               /\ mapping.d[i].v.t \notin {"none", "dict"}
    THEN Raise("TypeError")
    ELSE [t |-> "mapping",
          m |-> GS_sections(mapping.d, GS_conversions(mapping.d, <<>>), EmptyMapping)]

\* mapping.setdefault(key, value) for every conversion entry of the catalog
RECURSIVE SetDefaults(_, _)
SetDefaults(mapping, entries) ==
    IF entries = <<>> THEN mapping
    ELSE SetDefaults(
             IF is_conversion_key(Head(entries).k) /\ ~Has(mapping, Head(entries).k)
             THEN Append(mapping, Head(entries)) ELSE mapping,
             Tail(entries))

normalize_mapping(prog, mapping) ==
    IF prog = "EI" THEN EI_normalize_mapping(mapping) ELSE GS_normalize_mapping(mapping)

\* resolve_mapping(mappings, reference): [t |-> "mapping", m] or a raise
resolve_mapping(prog, mappings, reference) ==
    LET Normalized(raw) ==
            normalize_mapping(prog, IF prog = "GS" /\ raw.t = "dict"
                                    THEN PyDict(SetDefaults(raw.d, mappings))
                                    ELSE raw)
        Resolved(ref) ==
            IF ref.t = "str" /\ ~Has(mappings, ref.s) THEN Raise("KeyError")
            ELSE IF ref.t \notin {"str", "dict"} THEN Raise("TypeError")
            ELSE Normalized(IF ref.t = "str" THEN Get(mappings, ref.s) ELSE ref)
    IN  Resolved(IF reference.t = "none" THEN PyStr(K_default) ELSE reference)

\* build_ordered_keys(mapping)
GENERATED_FIELDS == <<"facility_code", "enquete_key", "import_date">>

RECURSIVE Concat(_)
Concat(seqs) == IF seqs = <<>> THEN <<>> ELSE Head(seqs) \o Concat(Tail(seqs))

build_ordered_keys(mapping) ==
    Concat([i \in 1..5 |->
               [j \in 1..Len(mapping[Sections[i]]) |-> mapping[Sections[i]][j].db_key]])
    \o GENERATED_FIELDS

\* extract_required_headers(mapping): GS leaves out an empty header
extract_required_headers(prog, mapping) ==
    LET headers == UNION {{mapping[section][j].csv_header :
                              j \in 1..Len(mapping[section])} :
                          section \in Range(Sections)}
    IN  IF prog = "GS" THEN headers \ {<<>>} ELSE headers

-----------------------------------------------------------------------------
(* Record builder.  A row maps each required header to the cell's text.    *)

\* row.get(header)
RowGet(row, header) == IF header \in DOMAIN row THEN PyStr(row[header]) ELSE PyNone

\* GS apply_conversion(value, conversion)
apply_conversion(value, conversion) ==
    IF value = <<>> \/ ~Truthy(conversion) THEN value
    ELSE IF Has(conversion.d, value) THEN Get(conversion.d, value) ELSE value

\* EI apply_value_conversion(value, db_key, conversions)
apply_value_conversion(value, db_key, conversions) ==
    LET table == Get(conversions, db_key)
        normalized == normalize_cell_value(value)
    IN  IF conversions = <<>> \/ ~Truthy(table) \/ normalized = <<>> THEN value
        ELSE IF Has(table.d, normalized) THEN Get(table.d, normalized) ELSE value

\* EI ENGLISH_TO_JAPANESE_CONVERSIONS: one entry of each of the two tables
\* ("Good" -> "YOI", "Yes" -> "HAI"; the tokens stand for the Japanese words)
ENGLISH_TO_JAPANESE_CONVERSIONS ==
    << <<[k |-> <<"G", "o", "o", "d">>, v |-> <<"YOI">>]>>,
       <<[k |-> <<"Y", "e", "s">>, v |-> <<"HAI">>]>> >>

convert_english_to_japanese(value) ==
    IF Has(ENGLISH_TO_JAPANESE_CONVERSIONS[1], value)
    THEN Get(ENGLISH_TO_JAPANESE_CONVERSIONS[1], value)
    ELSE IF Has(ENGLISH_TO_JAPANESE_CONVERSIONS[2], value)
    THEN Get(ENGLISH_TO_JAPANESE_CONVERSIONS[2], value)
    ELSE value

\* the variant of StrOrNone that keeps the empty string (C15)
StrOrEmpty(s) == PyStr(h2z(s))

StrOrNone(s) == IF s # <<>> THEN PyStr(h2z(s)) ELSE PyNone

\* the value of one field of a record, EI
EI_field_value(section, field, row, conversions) ==
    LET Integer(halfwidth) ==
            IF field.db_key = "comprehensive_evaluation"
            THEN normalize_comprehensive_evaluation(halfwidth)
            ELSE IF isdecimal(halfwidth) THEN PyInt(StrToInt(halfwidth))
            ELSE PyNone
        Dated(parsed) ==
            IF section = "date" /\ parsed.t # "none" THEN DateOf(parsed) ELSE parsed
        Typed(value) ==
            CASE section = "string" ->
                     StrOrNone(IF value # <<>> THEN convert_english_to_japanese(value)
                               ELSE value)
              [] section = "text" -> StrOrNone(replace_invalid_shiftjis_chars(value))
              [] section = "integer" ->
                     IF value = <<>> THEN PyNone ELSE Integer(z2h(value))
              [] OTHER -> Dated(parse_datetime_value(PyStr(value)))
    IN  Typed(normalize_cell_value(
                  apply_value_conversion(RowGet(row, field.csv_header),
                                         field.db_key, conversions)))

\* the value of one field of a record, GS
GS_field_value(section, field, row) ==
    LET Dated(parsed) ==
            IF section = "date" /\ parsed.t # "none" THEN DateOf(parsed) ELSE parsed
        Converted(converted) ==
            CASE section = "string" -> StrOrNone(converted)
              [] section = "text" -> StrOrNone(replace_invalid_shiftjis_chars(converted))
              [] section = "integer" -> parse_integer_cell(converted, field.clamp)
        Typed(value) ==
            IF section \in {"date", "datetime"}
            THEN Dated(parse_datetime_value(PyStr(value)))
            ELSE Converted(apply_conversion(value, field.conversion))
    IN  Typed(normalize_cell_value(RowGet(row, field.csv_header)))

\* the first exception among the values of a record, or the record as a dict
FirstRaise(pairs) ==
    IF \E i \in 1..Len(pairs) : IsRaise(pairs[i].v)
    THEN pairs[CHOOSE i \in 1..Len(pairs) :
                   IsRaise(pairs[i].v) /\ \A j \in 1..(i - 1) : ~IsRaise(pairs[j].v)].v
    ELSE PyDict(Update(<<>>, pairs))

\* make_record_from_row: the record as a dict db_key -> value, or the first
\* exception a field raises
make_record_from_row(prog, row, mapping, conversions) ==
    LET Value(section, field) ==
            [k |-> field.db_key,
             v |-> IF prog = "EI"
                   THEN EI_field_value(section, field, row, conversions)
                   ELSE GS_field_value(section, field, row)]
    IN  FirstRaise(Concat([i \in 1..5 |->
                      [j \in 1..Len(mapping[Sections[i]]) |->
                          Value(Sections[i], mapping[Sections[i]][j])]]))

\* a or b on two optional fields
OrElse(a, b) == IF a.t # "none" THEN a ELSE b

\* a or b on two optional header names of an EI mapping
HeaderOrElse(a, b) == IF a.t # "none" /\ a.csv_header # <<>> THEN a ELSE b

\* EI build_enquete_key(row, mapping, facility_code, prefix, suffix, conversions)
EI_build_enquete_key(row, mapping, facility_code, prefix, suffix, conversions) ==
    LET Affixed(base_key) ==
            IF Truthy(suffix) THEN base_key \o <<"-">> \o suffix.s ELSE base_key
        Prefixed(base_key) ==
            Affixed(IF Truthy(prefix) THEN prefix.s \o base_key ELSE base_key)
        Dated(room_value, parsed) ==
            IF parsed.t = "none" THEN PyNone
            ELSE PyStr(Prefixed(room_value \o <<"-">> \o strftime_Ymd(parsed) \o <<"-">>
                                \o IntToStr(facility_code)))
        Room(room_value, start_date_header) ==
            IF room_value = <<>> \/ ~isdecimal(room_value) THEN PyNone
            ELSE Dated(room_value,
                       parse_datetime_value(RowGet(row, start_date_header.csv_header)))
        Headers(room_header, start_date_header) ==
            IF \/ room_header.t = "none" \/ room_header.csv_header = <<>>
               \/ start_date_header.t = "none" \/ start_date_header.csv_header = <<>>
            THEN PyNone
            ELSE Room(z2h(normalize_cell_value(
                              apply_value_conversion(RowGet(row, room_header.csv_header),
                                                     "room_number", conversions))),
                      start_date_header)
    IN  Headers(HeaderOrElse(FieldOf(mapping, "string", "room_number"),
                             FieldOf(mapping, "integer", "room_number")),
                HeaderOrElse(FieldOf(mapping, "date", "start_date"),
                             FieldOf(mapping, "datetime", "start_date")))

\* FieldSpec is a dataclass: two fields are equal when header, conversion and
\* clamp are
SameFieldSpec(a, b) ==
    a.csv_header = b.csv_header /\ a.conversion = b.conversion /\ a.clamp = b.clamp

\* GS build_enquete_key(row, mapping)
GS_build_enquete_key(row, mapping) ==
    LET Dated(room_value, parsed) ==
            IF parsed.t = "none" THEN PyNone
            ELSE PyStr(room_value \o <<"-">> \o strftime_Ymd(parsed) \o <<"-", "1">>)
        Room(room_value, start_field) ==
            IF IsRaise(room_value) THEN room_value
            ELSE IF room_value.t = "none" \/ room_value.s = <<>> THEN PyNone
            ELSE Dated(room_value.s,
                       parse_datetime_value(RowGet(row, start_field.csv_header)))
        StrOf(parsed_room) ==
            IF parsed_room.t = "int" THEN PyStr(IntToStr(parsed_room.n)) ELSE parsed_room
        Decimal(normalized) ==
            IF normalized # <<>> /\ isdecimal(normalized) THEN PyStr(normalized) ELSE PyNone
        RoomValue(room_field, room_value_raw) ==
            IF \E j \in 1..Len(mapping["integer"]) :
                   SameFieldSpec(room_field, mapping["integer"][j])
            THEN StrOf(parse_integer_cell(room_value_raw, room_field.clamp))
            ELSE Decimal(z2h(room_value_raw))
        KeyOf(room_field, start_field) ==
            IF room_field.t = "none" \/ start_field.t = "none" THEN PyNone
            ELSE Room(RoomValue(room_field,
                                apply_conversion(
                                    normalize_cell_value(RowGet(row, room_field.csv_header)),
                                    room_field.conversion)),
                      start_field)
    IN  KeyOf(OrElse(FieldOf(mapping, "string", "room_number"),
                     FieldOf(mapping, "integer", "room_number")),
              OrElse(FieldOf(mapping, "date", "start_date"),
                     FieldOf(mapping, "datetime", "start_date")))

\* the variant of build_enquete_key that raises where no key can be derived
\* (C11)
build_enquete_key_strict(prog, row, mapping, facility_code, prefix, suffix, conversions) ==
    LET Strict(key) == IF key = PyNone THEN Raise("ValueError") ELSE key
    IN  Strict(IF prog = "EI"
               THEN EI_build_enquete_key(row, mapping, facility_code, prefix, suffix,
                                         conversions)
               ELSE GS_build_enquete_key(row, mapping))

\* build_enquete_key of either program; GS takes no affixes and no facility code
build_enquete_key(prog, row, mapping, facility_code, prefix, suffix, conversions) ==
    IF prog = "EI"
    THEN EI_build_enquete_key(row, mapping, facility_code, prefix, suffix, conversions)
    ELSE GS_build_enquete_key(row, mapping)

-----------------------------------------------------------------------------
(* Configuration helpers *)

\* "" becomes None, any other text is kept
NoneIfEmpty(text) == IF text = <<>> THEN PyNone ELSE PyStr(text)

\* sanitize_mapping_reference(reference)
sanitize_mapping_reference(reference) ==
    IF reference.t = "str" THEN NoneIfEmpty(normalize_cell_value(reference))
    ELSE reference

\* normalize_optional_string(value)
normalize_optional_string(value) == NoneIfEmpty(normalize_cell_value(value))

UpperCase == <<"A", "D", "E", "F", "J", "L", "N", "R", "T", "U">>
LowerCase == <<"a", "d", "e", "f", "j", "l", "n", "r", "t", "u">>

\* str.casefold
casefold(s) ==
    [i \in 1..Len(s) |->
        IF \E j \in 1..Len(UpperCase) : UpperCase[j] = s[i]
        THEN LowerCase[CHOOSE j \in 1..Len(UpperCase) : UpperCase[j] = s[i]]
        ELSE s[i]]

\* normalize_language_key(value)
normalize_language_key(value) ==
    LET Folded(normalized) ==
            IF normalized.t = "none" THEN PyNone ELSE PyStr(casefold(normalized.s))
    IN  Folded(normalize_optional_string(value))

\* EI build_language_mappings: a dict normalized language -> mapping, or the
\* first exception a resolution raises
RECURSIVE ResolveLanguages(_, _, _)
ResolveLanguages(available_mappings, entries, resolved) ==
    LET Added(normalized_key, mapping) ==
            IF normalized_key.t # "none" /\ IsRaise(mapping) THEN mapping
            ELSE ResolveLanguages(available_mappings, Tail(entries),
                                  IF normalized_key.t = "none" THEN resolved
                                  ELSE Put(resolved, normalized_key.s, mapping))
    IN  IF entries = <<>> THEN PyDict(resolved)
        ELSE Added(normalize_language_key(PyStr(Head(entries).k)),
                   resolve_mapping("EI", available_mappings, Head(entries).v))

\* the variant of build_language_mappings that synthesizes "default" also
\* when no plain mapping reference is given (C9)
build_language_mappings_defaulted(available_mappings, mapping_reference, language_mappings) ==
    LET WithDefault(resolved, fallback) ==
            IF IsRaise(fallback) THEN fallback
            ELSE PyDict(Put(resolved.d, K_default, fallback))
        Resolved(resolved) ==
            IF IsRaise(resolved) THEN resolved
            ELSE IF ~Has(resolved.d, K_default)
            THEN WithDefault(resolved,
                             resolve_mapping("EI", available_mappings, mapping_reference))
            ELSE resolved
    IN  Resolved(ResolveLanguages(available_mappings, language_mappings, <<>>))

build_language_mappings(available_mappings, mapping_reference, language_mappings) ==
    LET WithDefault(resolved, fallback) ==
            IF IsRaise(fallback) THEN fallback
            ELSE PyDict(Put(resolved.d, K_default, fallback))
        Resolved(resolved) ==
            IF IsRaise(resolved) THEN resolved
            ELSE IF ~Has(resolved.d, K_default) /\ mapping_reference.t # "none"
            THEN WithDefault(resolved,
                             resolve_mapping("EI", available_mappings, mapping_reference))
            ELSE resolved
    IN  Resolved(ResolveLanguages(available_mappings, language_mappings, <<>>))

\* build_header_index(headers): header -> position, first occurrence wins,
\* blank headers ignored
build_header_index(headers) ==
    LET names == {normalize_cell_value(PyStr(headers[i])) : i \in 1..Len(headers)} \ {<<>>}
    IN  [h \in names |->
            CHOOSE i \in 1..Len(headers) :
                /\ normalize_cell_value(PyStr(headers[i])) = h
                /\ \A j \in 1..(i - 1) : normalize_cell_value(PyStr(headers[j])) # h]

\* read_records without the check of the required headers: the variant under
\* which a header the worksheet lacks reads as an empty cell (C22)
read_records_unvalidated(rows, required_headers) ==
    LET header_index == build_header_index(rows[1])
        blank(raw_row) ==
            \A i \in 1..Len(raw_row) : normalize_cell_value(PyStr(raw_row[i])) = <<>>
        data == SelectSeq(Tail(rows), LAMBDA raw_row : ~blank(raw_row))
        cell(raw_row, h) ==
            IF h \in DOMAIN header_index /\ header_index[h] <= Len(raw_row)
            THEN raw_row[header_index[h]] ELSE <<>>
    IN  IF rows = <<>> THEN PyList(<<>>)
        ELSE PyList([n \in 1..Len(data) |->
                        [h \in required_headers |-> cell(data[n], h)]])

\* read_records(worksheet, required_headers); rows is get_all_values()
read_records(rows, required_headers) ==
    LET header_index == build_header_index(rows[1])
        blank(raw_row) ==
            \A i \in 1..Len(raw_row) : normalize_cell_value(PyStr(raw_row[i])) = <<>>
        data == SelectSeq(Tail(rows), LAMBDA raw_row : ~blank(raw_row))
    IN  IF rows = <<>> THEN PyList(<<>>)
        ELSE IF required_headers \ DOMAIN header_index # {} THEN Raise("ValueError")
        ELSE PyList([n \in 1..Len(data) |->
                        [h \in required_headers |->
                            IF header_index[h] <= Len(data[n])
                            THEN data[n][header_index[h]] ELSE <<>>]])

-----------------------------------------------------------------------------
(* The configuration of the model: config.yaml and the worksheets *)

H_rm == <<"r", "m">>
H_sc == <<"s", "c">>
H_dt == <<"d", "t">>
H_gs == <<"g", "s">>
H_lg == <<"l", "g">>

K_table == <<"t", "a", "b", "l", "e">>
K_mapping == <<"m", "a", "p", "p", "i", "n", "g">>
K_alt == <<"a", "l", "t">>
K_nope == <<"n", "o", "p", "e">>

DEFAULT_TABLE_NAME == <<"e", "n", "q", "u", "e", "t", "e", "s">>
T_alt == <<"s", "t", "a", "y", "s">>
Tables == {DEFAULT_TABLE_NAME, T_alt}

Fields(pairs) == PyDict([i \in 1..Len(pairs) |-> [k |-> pairs[i][1], v |-> PyStr(pairs[i][2])]])

\* config["mappings"]: the global catalog
M_default ==
    PyDict(<<[k |-> K_string, v |-> Fields(<<<<"room_number", H_rm>>>>)],
             [k |-> K_integer, v |-> Fields(<<<<"comprehensive_evaluation", H_sc>>>>)],
             [k |-> K_date, v |-> Fields(<<<<"start_date", <<" ">> \o H_dt>>>>)]>>)

M_alt ==
    PyDict(<<[k |-> K_string, v |-> Fields(<<<<"room_number", H_rm>>, <<"guest", H_gs>>>>)],
             [k |-> K_datetime, v |-> Fields(<<<<"start_date", H_dt>>>>)]>>)

\* a mapping whose string section is not a key-value structure
M_malformed == PyDict(<<[k |-> K_string, v |-> PyStr(H_rm)]>>)

BaseMappings == <<[k |-> K_default, v |-> M_default], [k |-> K_alt, v |-> M_alt]>>

D_0305 == <<"2", "0", "2", "4", "-", "0", "3", "-", "0", "5">>
D_0306 == <<"2", "0", "2", "4", "NEN", "3", "GATSU", "6", "NICHI">>
HeaderRow == <<H_rm, H_sc, H_dt, <<" ">> \o H_gs, H_lg, H_rm>>
RowA == <<<<"1", "0", "1">>, <<"8", "7", ".", "5">>, D_0305, <<"S">>, <<"E", "N">>>>
RowB == <<<<"F1", "0", "2">>, <<"1", "5", "0">>, D_0306, <<>>, <<"f", "r">>>>
RowNan == <<<<"1", "0", "3">>, <<"n", "a", "n">>, D_0305, <<"S">>, <<"j", "a">>>>
BlankRow == <<<<>>, <<" ">>>>

\* worksheet.get_all_values() of each spreadsheet of the model
Worksheets ==
    [two |-> <<HeaderRow, RowA, BlankRow, RowB>>,
     empty |-> <<HeaderRow, BlankRow>>,
     nan |-> <<HeaderRow, RowNan>>,
     nogs |-> <<<<H_rm, H_sc, H_dt, H_lg>>, RowA>>,
     fr |-> <<HeaderRow, RowB>>]

Absent == [t |-> "absent"]

\* one facility's configuration; Absent stands for a key the facility does not
\* have, spreadsheet_id "" for no spreadsheet id
FacilityDefaults ==
    [facility_code |-> PyInt(1), spreadsheet_id |-> "two", mapping |-> PyNone,
     mappings |-> PyNone, table |-> PyNone, delete |-> PyNone, imports |-> PyNone,
     language_column |-> PyNone, language_mappings |-> PyNone,
     value_conversions |-> <<>>,
     enquete_key_prefix |-> PyNone, enquete_key_suffix |-> PyNone]

PyFalse == [t |-> "bool", b |-> FALSE]

Profile(name) ==
    CASE name = "plain" -> FacilityDefaults
      [] name = "second" ->
             [FacilityDefaults EXCEPT !.facility_code = PyInt(2), !.table = PyStr(T_alt \o <<" ">>),
                                      !.enquete_key_prefix = PyStr(<<"A", "-">>),
                                      !.enquete_key_suffix = PyStr(<<"X">>)]
      [] name = "nocode" -> [FacilityDefaults EXCEPT !.facility_code = Absent]
      [] name = "noid" -> [FacilityDefaults EXCEPT !.spreadsheet_id = ""]
      [] name = "unknown" -> [FacilityDefaults EXCEPT !.mapping = PyStr(K_nope)]
      [] name = "malformed" -> [FacilityDefaults EXCEPT !.mapping = M_malformed]
      [] name = "empty" -> [FacilityDefaults EXCEPT !.spreadsheet_id = "empty"]
      [] name = "keep" -> [FacilityDefaults EXCEPT !.delete = PyFalse]
      [] name = "keepempty" ->
             [FacilityDefaults EXCEPT !.delete = PyFalse, !.spreadsheet_id = "empty"]
      [] name = "twojobs" ->
             [FacilityDefaults EXCEPT !.imports =
                 PyList(<<PyStr(K_default),
                          PyDict(<<[k |-> K_table, v |-> PyStr(T_alt)],
                                   [k |-> K_mapping, v |-> PyStr(K_alt)]>>)>>)]
      [] name = "jobsmissing" ->
             [FacilityDefaults EXCEPT !.spreadsheet_id = "nogs", !.imports =
                 PyList(<<PyStr(K_default),
                          PyDict(<<[k |-> K_table, v |-> PyStr(T_alt)],
                                   [k |-> K_mapping, v |-> PyStr(K_alt)]>>)>>)]
      [] name = "samejobs" ->
             [FacilityDefaults EXCEPT !.imports = PyList(<<PyStr(K_default), M_alt>>)]
      [] name = "lang" ->
             [FacilityDefaults EXCEPT !.language_column = PyStr(H_lg),
                 !.language_mappings =
                     PyDict(<<[k |-> <<"E", "N", " ">>, v |-> PyStr(K_default)],
                              [k |-> <<"J", "A">>, v |-> PyStr(K_alt)]>>)]
      [] name = "langfr" ->
             [FacilityDefaults EXCEPT !.spreadsheet_id = "fr",
                 !.language_column = PyStr(H_lg),
                 !.language_mappings =
                     PyDict(<<[k |-> <<"E", "N">>, v |-> PyStr(K_default)]>>)]
      [] name = "langdef" ->
             [FacilityDefaults EXCEPT !.mapping = PyStr(K_default),
                 !.language_column = PyStr(H_lg),
                 !.language_mappings =
                     PyDict(<<[k |-> <<"J", "A">>, v |-> PyStr(K_alt)]>>)]
      [] name = "langexp" ->
             [FacilityDefaults EXCEPT !.language_column = PyStr(H_lg),
                 !.language_mappings =
                     PyDict(<<[k |-> <<"D", "e", "f", "a", "u", "l", "t", " ">>,
                               v |-> PyStr(K_alt)]>>)]
      [] name = "langnone" ->
             [FacilityDefaults EXCEPT !.language_column = PyStr(H_lg)]
      [] name = "missing" ->
             [FacilityDefaults EXCEPT !.spreadsheet_id = "nogs", !.mapping = PyStr(K_alt)]
      [] name = "nan" -> [FacilityDefaults EXCEPT !.spreadsheet_id = "nan"]

Profiles ==
    {"plain", "second", "nocode", "noid", "unknown", "malformed", "empty", "keep",
     "keepempty", "twojobs", "jobsmissing", "samejobs", "lang", "langfr", "langdef", "langexp",
     "langnone", "missing", "nan"}

\* config["corporations"]: two organizations, the first with two facilities
Corporations ==
    <<[name |-> "corpA", mappings |-> PyNone, mapping |-> PyNone,
       facilities |-> <<"f1", "f2">>],
      [name |-> "corpB", mappings |-> PyNone, mapping |-> PyStr(K_default),
       facilities |-> <<"g1">>]>>

\* the profiles each facility is drawn from: every profile for the first
\* facility, and for the later ones those that share or do not share its table
\* and facility code, import nothing, or are skipped or fail
ProfilesOf(who) ==
    IF who = <<1, 1>> THEN Profiles
    ELSE IF who = <<1, 2>> THEN {"plain", "second", "empty", "nocode"}
    ELSE {"plain", "unknown"}

-----------------------------------------------------------------------------
(* The database connection.  st is the state import_facility works on:     *)
(* db the committed tables, tx the tables as the open transaction sees     *)
(* them, cleared the GS cleared_facilities, log the statements issued,     *)
(* exc and origin the exception that ended the import, if any.             *)

NoFault == [at |-> "none", job |-> 0]

Fail(st, exc, origin) == [st EXCEPT !.exc = exc, !.origin = origin]

Stmt(op, who, job, table, code, rows) ==
    [op |-> op, who |-> who, job |-> job, table |-> table, code |-> code, rows |-> rows]

\* a DELETE that removes nothing: the variant of ExecDelete under which a
\* repeated import appends (C3)
ExecDeleteNothing(st, who, job, table, code, fault) ==
    IF fault.at = "delete" /\ fault.job = job THEN Fail(st, "Error", "database")
    ELSE [st EXCEPT !.log = Append(@, Stmt("DELETE", who, job, table, code, <<>>))]

\* a DELETE without its WHERE clause: the variant of ExecDelete under which
\* the rows of every facility code leave the table (C21)
ExecDeleteAll(st, who, job, table, code, fault) ==
    IF fault.at = "delete" /\ fault.job = job THEN Fail(st, "Error", "database")
    ELSE [st EXCEPT !.tx[table] = <<>>,
                    !.log = Append(@, Stmt("DELETE", who, job, table, code, <<>>))]

\* cursor.execute("DELETE FROM table WHERE facility_code = %s")
ExecDelete(st, who, job, table, code, fault) ==
    IF fault.at = "delete" /\ fault.job = job THEN Fail(st, "Error", "database")
    ELSE [st EXCEPT
             !.tx[table] = SelectSeq(@, LAMBDA r : Get(r, "facility_code") # code),
             !.log = Append(@, Stmt("DELETE", who, job, table, code, <<>>))]

\* extras.execute_values(cursor, insert_query, buffer); the driver raises a
\* database error, or a ValueError for a value it cannot send
ExecInsert(st, who, job, table, code, buffer, fault) ==
    IF fault.at = "insert" /\ fault.job = job THEN Fail(st, "Error", "database")
    ELSE IF fault.at = "value" /\ fault.job = job THEN Fail(st, "ValueError", "database")
    ELSE [st EXCEPT
             !.tx[table] = @ \o buffer,
             !.log = Append(@, Stmt("INSERT", who, job, table, code, buffer))]

\* connection.commit()
Commit(st, who, job, fault) ==
    IF fault.at = "commit" /\ fault.job = job THEN Fail(st, "Error", "database")
    ELSE [st EXCEPT !.db = st.tx,
                    !.log = Append(@, Stmt("COMMIT", who, job, <<>>, PyNone, <<>>))]

\* connection.rollback()
Rollback(st, who) ==
    [st EXCEPT !.tx = st.db,
               !.log = Append(@, Stmt("ROLLBACK", who, 0, <<>>, PyNone, <<>>))]

\* build_generated_fields and the row of the insert buffer:
\* [record.get(key) for key in ordered_keys], kept with its column names
BufferRow(prog, row, mapping, ordered_keys, fc, now) ==
    LET Ordered(full) ==
            PyDict([i \in 1..Len(ordered_keys) |->
                       [k |-> ordered_keys[i], v |-> Get(full, ordered_keys[i])]])
        Generated(record, key) ==
            IF IsRaise(record) THEN record
            ELSE IF IsRaise(key) THEN key
            ELSE Ordered(Update(record.d,
                                <<[k |-> "facility_code", v |-> fc.facility_code],
                                  [k |-> "enquete_key", v |-> key],
                                  [k |-> "import_date",
                                   v |-> [t |-> "timestamp", at |-> now]]>>))
    IN  Generated(make_record_from_row(prog, row, mapping, fc.value_conversions),
                  build_enquete_key(prog, row, mapping, fc.facility_code.n,
                                    fc.enquete_key_prefix, fc.enquete_key_suffix,
                                    fc.value_conversions))

\* the first exception among the rows of a buffer, or the buffer
BufferOf(rows) ==
    IF \E i \in 1..Len(rows) : IsRaise(rows[i])
    THEN rows[CHOOSE i \in 1..Len(rows) :
                  IsRaise(rows[i]) /\ \A j \in 1..(i - 1) : ~IsRaise(rows[j])]
    ELSE PyList([i \in 1..Len(rows) |-> rows[i].d])

\* open_worksheet followed by read_records
FetchRecords(fc, required_headers, fault) ==
    LET Read(records) ==
            IF IsRaise(records)
            THEN [t |-> "raise", exc |-> records.exc, origin |-> "header"]
            ELSE records
    IN  IF fc.spreadsheet_id = ""
        THEN [t |-> "raise", exc |-> "ValueError", origin |-> "spreadsheet_id"]
        ELSE IF fault.at = "network"
        THEN [t |-> "raise", exc |-> "Error", origin |-> "network"]
        ELSE Read(read_records(Worksheets[fc.spreadsheet_id], required_headers))

\* the worksheet has been read: the call and the number of records are noted
FetchedState(st, who, required_headers, records) ==
    [st EXCEPT !.fetched = Len(records.l),
               !.log = Append(@, Stmt("FETCH", who, 0, <<>>, PyNone, required_headers))]

\* the catalog value of an optional "mappings" key: get("mappings", {}) or {}
CatalogOf(value) == IF Truthy(value) THEN value ELSE PyDict(<<>>)

\* the mapping reference of the facility, else of the organization
MappingReference(corp, fc) ==
    OrElse(sanitize_mapping_reference(fc.mapping), sanitize_mapping_reference(corp.mapping))

\* the table of the facility: its own, else the default table
FacilityTable(fc) == OrElse(normalize_optional_string(fc.table), PyStr(DEFAULT_TABLE_NAME)).s

\* available_mappings of import_facility: the global catalog, then the
\* organization's, then the location's
AvailableMappings(prog, base_mappings, corp, fc) ==
    IF prog = "EI"
    THEN Update(Update(base_mappings, CatalogOf(corp.mappings).d), CatalogOf(fc.mappings).d)
    ELSE merge_mapping_catalog(
             merge_mapping_catalog(merge_mapping_catalog(<<>>, PyDict(base_mappings)),
                                   CatalogOf(corp.mappings)),
             CatalogOf(fc.mappings))

-----------------------------------------------------------------------------
(* import_facility of enquetes_importer.py *)

\* the variant of select_language_mapping that falls back to the first
\* variant when there is no default (C8)
select_language_or_first(resolved, language_value) ==
    IF language_value.t # "none" /\ Has(resolved, language_value.s)
    THEN Get(resolved, language_value.s)
    ELSE IF Has(resolved, K_default) THEN Get(resolved, K_default)
    ELSE resolved[1].v

\* resolved_language_mappings.get(language_value) or .get("default"):
\* a resolved mapping, or PyNone when the row is to be skipped
select_language_mapping(resolved, language_value) ==
    IF language_value.t # "none" /\ Has(resolved, language_value.s)
    THEN Get(resolved, language_value.s)
    ELSE Get(resolved, K_default)

\* the variant of EI_write that returns before the DELETE when there is
\* nothing to insert (C7)
EI_write_early(st, who, table, fc, buffer, fault) ==
    LET Inserted(inserted) ==
            IF inserted.exc # "none" THEN inserted ELSE Commit(inserted, who, 1, fault)
        Deleted(deleted) ==
            IF deleted.exc # "none" THEN deleted
            ELSE Inserted(ExecInsert(deleted, who, 1, table, fc.facility_code, buffer,
                                     fault))
    IN  IF buffer = <<>> THEN Commit(st, who, 1, fault)
        ELSE Deleted(IF fc.delete.t = "none" \/ Truthy(fc.delete)
                     THEN ExecDelete(st, who, 1, table, fc.facility_code, fault)
                     ELSE st)

\* the statements of import_facility from the DELETE on
EI_write(st, who, table, fc, buffer, fault) ==
    LET Inserted(inserted) ==
            IF inserted.exc # "none" THEN inserted ELSE Commit(inserted, who, 1, fault)
        Deleted(deleted) ==
            IF deleted.exc # "none" THEN deleted
            ELSE IF buffer = <<>> THEN Commit(deleted, who, 1, fault)
            ELSE Inserted(ExecInsert(deleted, who, 1, table, fc.facility_code, buffer,
                                     fault))
    IN  Deleted(IF fc.delete.t = "none" \/ Truthy(fc.delete)
                THEN ExecDelete(st, who, 1, table, fc.facility_code, fault)
                ELSE st)

EI_import_facility(corp, fc, st, who, fault, now) ==
    LET language_column == normalize_optional_string(fc.language_column)
        mappingOf(resolved, row) ==
            IF language_column.t # "none"
            THEN select_language_mapping(
                     resolved.d, normalize_language_key(RowGet(row, language_column.s)))
            ELSE Get(resolved.d, K_default)
        Written(resolved, read, buffer) ==
            IF IsRaise(buffer) THEN Fail(read, buffer.exc, "cell")
            ELSE EI_write([read EXCEPT
                              !.languages = {resolved.d[i].k : i \in 1..Len(resolved.d)},
                              !.buffered = Len(buffer.l)],
                          who, FacilityTable(fc), fc, buffer.l, fault)
        Buffered(resolved, read, ordered_keys, kept) ==
            Written(resolved, read,
                    BufferOf([i \in 1..Len(kept) |->
                                 BufferRow("EI", kept[i], mappingOf(resolved, kept[i]).m,
                                           ordered_keys, fc, now)]))
        Fetched(resolved, mapping_for_schema, required_headers, records) ==
            IF IsRaise(records) THEN Fail(st, records.exc, records.origin)
            ELSE Buffered(resolved, FetchedState(st, who, required_headers, records),
                          build_ordered_keys(mapping_for_schema.m),
                          SelectSeq(records.l,
                                    LAMBDA row : mappingOf(resolved, row).t # "none"))
        Required(resolved, required_headers) ==
            Fetched(resolved,
                    OrElse(Get(resolved.d, K_default), resolved.d[1].v),
                    required_headers,
                    FetchRecords(fc, required_headers, fault))
        Resolved(resolved) ==
            IF IsRaise(resolved) THEN Fail(st, resolved.exc, "mapping")
            ELSE IF resolved.d = <<>> THEN Fail(st, "ValueError", "language")
            ELSE Required(resolved,
                          (IF language_column.t # "none" THEN {language_column.s}
                           ELSE {})
                          \cup UNION {extract_required_headers("EI", resolved.d[i].v.m) :
                                         i \in 1..Len(resolved.d)})
        Plain(mapping_for_schema) ==
            IF IsRaise(mapping_for_schema) THEN mapping_for_schema
            ELSE PyDict(<<[k |-> K_default, v |-> mapping_for_schema]>>)
        Configured(available_mappings, mapping_reference, language_mappings_config) ==
            IF /\ language_column.t # "none"
               /\ language_mappings_config = <<>>
               /\ mapping_reference.t = "none"
            THEN Fail(st, "ValueError", "language")
            ELSE Resolved(IF language_column.t # "none"
                          THEN build_language_mappings(available_mappings,
                                                       mapping_reference,
                                                       language_mappings_config)
                          ELSE Plain(resolve_mapping("EI", available_mappings,
                                                     mapping_reference)))
    IN  IF fc.facility_code = Absent THEN Fail(st, "ValueError", "facility_code")
        ELSE Configured(AvailableMappings("EI", BaseMappings, corp, fc),
                        MappingReference(corp, fc),
                        CatalogOf(fc.language_mappings).d)

-----------------------------------------------------------------------------
(* import_facility of google_spreadsheet.py *)

ImportJob(table, mapping, mapping_name) ==
    [table |-> table, mapping |-> mapping, mapping_name |-> mapping_name]

\* the job of a resolved mapping, or the exception its resolution raised
GS_job(table, mapping, mapping_reference) ==
    IF IsRaise(mapping) THEN mapping
    ELSE ImportJob(table, mapping.m,
                   IF mapping_reference.t = "str" THEN mapping_reference ELSE PyNone)

\* an entry whose job writes to the location's table whatever the entry says:
\* the variant of GS_job_of_entry under which a table override is ignored (C19)
GS_job_of_entry_default_table(available_mappings, default_table, entry) ==
    LET Referenced(mapping_reference) ==
            GS_job(default_table,
                   resolve_mapping("GS", available_mappings, mapping_reference),
                   mapping_reference)
    IN  Referenced(sanitize_mapping_reference(
                       IF /\ entry.t = "dict"
                          /\ ~is_mapping_definition_dict(entry)
                          /\ Has(entry.d, K_mapping)
                       THEN Get(entry.d, K_mapping)
                       ELSE entry))

\* one entry of the "imports" list: an ImportJob or an exception
GS_job_of_entry(available_mappings, default_table, entry) ==
    LET Referenced(table_override, mapping_reference) ==
            GS_job(table_override,
                   resolve_mapping("GS", available_mappings, mapping_reference),
                   mapping_reference)
        Described(described) ==
            Referenced(IF described
                       THEN OrElse(normalize_optional_string(Get(entry.d, K_table)),
                                   PyStr(default_table)).s
                       ELSE default_table,
                       sanitize_mapping_reference(
                           IF described /\ Has(entry.d, K_mapping)
                           THEN Get(entry.d, K_mapping)
                           ELSE entry))
    IN  Described(entry.t = "dict" /\ ~is_mapping_definition_dict(entry))

\* the first exception among the jobs, or the list of jobs
GS_job_list(jobs) ==
    IF \E i \in 1..Len(jobs) : "exc" \in DOMAIN jobs[i]
    THEN jobs[CHOOSE i \in 1..Len(jobs) :
                  /\ "exc" \in DOMAIN jobs[i]
                  /\ \A j \in 1..(i - 1) : "exc" \notin DOMAIN jobs[j]]
    ELSE PyList(jobs)

\* the jobs of a facility: a list of ImportJob, or an exception
GS_jobs(available_mappings, corp, fc, default_table) ==
    LET Single(mapping_reference) ==
            GS_job_list(<<GS_job(default_table,
                                 resolve_mapping("GS", available_mappings,
                                                 mapping_reference),
                                 mapping_reference)>>)
    IN  IF Truthy(fc.imports)
        THEN (IF fc.imports.t # "list" THEN Raise("TypeError")
              ELSE GS_job_list([i \in 1..Len(fc.imports.l) |->
                                   GS_job_of_entry(available_mappings, default_table,
                                                   fc.imports.l[i])]))
        ELSE Single(MappingReference(corp, fc))

\* the statements of one job from the DELETE on
GS_write(st, who, j, job, code, records, buffer, fault) ==
    LET Inserted(inserted) ==
            IF inserted.exc # "none" THEN inserted ELSE Commit(inserted, who, j, fault)
        Cleared(d) ==
            IF d.exc # "none" THEN d
            ELSE [d EXCEPT !.cleared = @ \cup {<<job.table, code>>}]
        Deleted(deleted) ==
            IF deleted.exc # "none" THEN deleted
            ELSE IF records = <<>> THEN Commit(deleted, who, j, fault)
            ELSE IF IsRaise(buffer) THEN Fail(deleted, buffer.exc, "cell")
            ELSE IF buffer.l = <<>> THEN Commit(deleted, who, j, fault)
            ELSE Inserted(ExecInsert([deleted EXCEPT !.buffered = @ + Len(buffer.l)],
                                     who, j, job.table, code, buffer.l, fault))
    IN  Deleted(IF <<job.table, code>> \notin st.cleared
                THEN Cleared(ExecDelete(st, who, j, job.table, code, fault))
                ELSE st)

\* the body of the loop "for job in jobs", for the jobs from the j-th on
RECURSIVE GS_run_jobs(_, _, _, _, _, _, _, _)
GS_run_jobs(jobs, j, records, st, who, fc, fault, now) ==
    LET Job(job, ordered_keys) ==
            GS_write(st, who, j, job, fc.facility_code, records,
                     BufferOf([i \in 1..Len(records) |->
                                  BufferRow("GS", records[i], job.mapping,
                                            ordered_keys, fc, now)]),
                     fault)
    IN  IF j > Len(jobs) \/ st.exc # "none" THEN st
        ELSE GS_run_jobs(jobs, j + 1, records,
                         Job(jobs[j], build_ordered_keys(jobs[j].mapping)),
                         who, fc, fault, now)

GS_import_facility(corp, fc, st, who, fault, now) ==
    LET Fetched(jobs, required_headers, records) ==
            IF IsRaise(records) THEN Fail(st, records.exc, records.origin)
            ELSE GS_run_jobs(jobs.l, 1, records.l,
                             FetchedState(st, who, required_headers, records),
                             who, fc, fault, now)
        Required(jobs, required_headers) ==
            Fetched(jobs, required_headers, FetchRecords(fc, required_headers, fault))
        Jobs(jobs) ==
            IF IsRaise(jobs) THEN Fail(st, jobs.exc, "mapping")
            ELSE Required(jobs,
                          UNION {extract_required_headers("GS", jobs.l[i].mapping) :
                                    i \in 1..Len(jobs.l)})
        Catalog(available_mappings) ==
            Jobs(GS_jobs(available_mappings, corp, fc, FacilityTable(fc)))
    IN  IF fc.facility_code = Absent THEN Fail(st, "ValueError", "facility_code")
        ELSE Catalog(AvailableMappings("GS", BaseMappings, corp, fc))

import_facility(prog, corp, fc, st, who, fault, now) ==
    IF prog = "EI" THEN EI_import_facility(corp, fc, st, who, fault, now)
    ELSE GS_import_facility(corp, fc, st, who, fault, now)

-----------------------------------------------------------------------------
(* main: the loop over organizations and facilities *)

MaxRuns == 2

Programs == {"EI", "GS"}

FaultJobs == {1, 2}

\* where a network or database call of one import may fail
Faults ==
    {NoFault, [at |-> "network", job |-> 0]}
    \cup {[at |-> a, job |-> j] : a \in {"delete", "insert", "commit"}, j \in FaultJobs}

\* where the driver may refuse a value of the insert buffer with a ValueError
ValueFaults == {[at |-> "value", job |-> j] : j \in FaultJobs}

\* a row left in a table by an earlier import
StaleRow(code) ==
    <<[k |-> "facility_code", v |-> PyInt(code)],
      [k |-> "enquete_key", v |-> PyNone],
      [k |-> "import_date", v |-> [t |-> "timestamp", at |-> 0]]>>

Facility(org, fac) == <<org, fac>>

FacilitiesOf(org) == {Facility(org, f) : f \in 1..Len(Corporations[org].facilities)}

ConfiguredFacilities == UNION {FacilitiesOf(o) : o \in 1..Len(Corporations)}

Pending ==
    [result |-> "pending", origin |-> "none", languages |-> {}, fetched |-> 0,
     buffered |-> 0]

Init ==
    /\ program \in Programs
    /\ config \in [ConfiguredFacilities -> Profiles]
    /\ \A w \in ConfiguredFacilities : config[w] \in ProfilesOf(w)
    /\ pc = "connect"
    /\ run = 1
    /\ orgIdx = 1
    /\ facIdx = 1
    /\ db = [o \in 1..Len(Corporations) |->
                [table \in Tables |-> <<StaleRow(1), StaleRow(2)>>]]
    /\ cleared = {}
    /\ log = <<>>
    /\ outcome = [w \in ConfiguredFacilities |-> Pending]
    /\ snap = <<>>
    /\ clean = TRUE
    /\ keyIn = PyNone
    /\ keyOut = PyNone
    /\ recIn = PyNone
    /\ recOut = PyNone
    /\ catIn = PyNone
    /\ catOut = PyNone

\* psycopg2.connect and the fresh cleared_facilities of one organization
Connect ==
    /\ pc = "connect"
    /\ pc' = "facility"
    /\ facIdx' = 1
    /\ cleared' = {}
    /\ UNCHANGED <<program, config, run, orgIdx, db, log, outcome, snap, clean,
                   keyIn, keyOut,
                   recIn, recOut, catIn, catOut>>

\* the call of import_facility in main's try block
Imported(fault) ==
    import_facility(program, Corporations[orgIdx],
                    Profile(config[Facility(orgIdx, facIdx)]),
                    [db |-> db[orgIdx], tx |-> db[orgIdx], cleared |-> cleared,
                     log |-> log, exc |-> "none", origin |-> "none",
                     languages |-> {}, fetched |-> 0, buffered |-> 0],
                    Facility(orgIdx, facIdx), fault, run)

OutcomeOf(result, st) ==
    [result |-> result, origin |-> st.origin, languages |-> st.languages,
     fetched |-> st.fetched, buffered |-> st.buffered]

InLoop == pc = "facility" /\ facIdx <= Len(Corporations[orgIdx].facilities)

\* import_facility returns: no call failed
FacilityImported ==
    /\ InLoop
    /\ \E st \in {Imported(NoFault)} :
          /\ st.exc = "none"
          /\ db' = [db EXCEPT ![orgIdx] = st.db]
          /\ cleared' = st.cleared
          /\ log' = st.log
          /\ outcome' = [outcome EXCEPT ![Facility(orgIdx, facIdx)] = OutcomeOf("ok", st)]
    /\ facIdx' = facIdx + 1
    /\ UNCHANGED <<program, config, pc, run, orgIdx, snap, clean, keyIn, keyOut,
                   recIn, recOut, catIn, catOut>>

\* the handlers of main: connection.rollback(), and what the run remembers
Handled(result, st, rolled) ==
    /\ db' = [db EXCEPT ![orgIdx] = rolled.db]
    /\ cleared' = rolled.cleared
    /\ log' = rolled.log
    /\ outcome' = [outcome EXCEPT ![Facility(orgIdx, facIdx)] = OutcomeOf(result, st)]
    /\ clean' = FALSE

\* except ValueError: rollback, warning, next facility (the network and the
\* database raise other exceptions than ValueError)
FacilitySkipped ==
    /\ InLoop
    /\ \E st \in {Imported(NoFault)} :
          /\ st.exc = "ValueError"
          /\ Handled("skipped", st, Rollback(st, Facility(orgIdx, facIdx)))
    /\ facIdx' = facIdx + 1
    /\ UNCHANGED <<program, config, pc, run, orgIdx, snap, keyIn, keyOut,
                   recIn, recOut, catIn, catOut>>

\* except Exception: rollback, raise; finally connection.close()
FacilityFailed ==
    /\ InLoop
    /\ \E fault \in Faults :
          \E st \in {Imported(fault)} :
              /\ st.exc \notin {"none", "ValueError"}
              /\ Handled("failed", st, Rollback(st, Facility(orgIdx, facIdx)))
    /\ pc' = "aborted"
    /\ UNCHANGED <<program, config, run, orgIdx, facIdx, snap, keyIn, keyOut,
                   recIn, recOut, catIn, catOut>>

\* the facility loop of one organization ends: connection.close()
Close ==
    /\ pc = "facility"
    /\ facIdx > Len(Corporations[orgIdx].facilities)
    /\ pc' = IF orgIdx = Len(Corporations) THEN "done" ELSE "connect"
    /\ orgIdx' = IF orgIdx = Len(Corporations) THEN orgIdx ELSE orgIdx + 1
    /\ UNCHANGED <<program, config, run, facIdx, db, cleared, log, outcome, snap,
                   clean, keyIn, keyOut,
                   recIn, recOut, catIn, catOut>>

\* the program is started again, on the same configuration and worksheets
Restart ==
    /\ pc \in {"done", "aborted"}
    /\ run < MaxRuns
    /\ run' = run + 1
    /\ pc' = "connect"
    /\ orgIdx' = 1
    /\ facIdx' = 1
    /\ cleared' = {}
    /\ log' = <<>>
    /\ outcome' = [w \in ConfiguredFacilities |-> Pending]
    /\ snap' = IF run = 1 THEN db ELSE snap
    /\ UNCHANGED <<program, config, db, clean, keyIn, keyOut,
                   recIn, recOut, catIn, catOut>>

Next ==
    \/ Connect
    \/ FacilityImported
    \/ FacilitySkipped
    \/ FacilityFailed
    \/ Close
    \/ Restart

Spec == Init /\ [][Next]_vars

-----------------------------------------------------------------------------
(* The run with a driver that may refuse a value: execute_values raises a  *)
(* ValueError, which main's except ValueError handles as it handles the    *)
(* ValueError of a configuration error.  The first facility is one that    *)
(* reaches its INSERT, with one job or with two.                           *)

InitDriver ==
    /\ program \in Programs
    /\ config \in [ConfiguredFacilities -> Profiles]
    /\ \A w \in ConfiguredFacilities : config[w] \in ProfilesOf(w)
    /\ config[Facility(1, 1)] \in {"plain", "twojobs"}
    /\ pc = "connect"
    /\ run = 1
    /\ orgIdx = 1
    /\ facIdx = 1
    /\ db = [o \in 1..Len(Corporations) |->
                [table \in Tables |-> <<StaleRow(1), StaleRow(2)>>]]
    /\ cleared = {}
    /\ log = <<>>
    /\ outcome = [w \in ConfiguredFacilities |-> Pending]
    /\ snap = <<>>
    /\ clean = TRUE
    /\ keyIn = PyNone
    /\ keyOut = PyNone
    /\ recIn = PyNone
    /\ recOut = PyNone
    /\ catIn = PyNone
    /\ catOut = PyNone

\* except ValueError, whatever raised it, import_facility itself or the
\* execute_values it called: rollback, warning, next facility
FacilityRejected ==
    /\ InLoop
    /\ \E fault \in {NoFault} \cup ValueFaults :
          \E st \in {Imported(fault)} :
              /\ st.exc = "ValueError"
              /\ Handled("skipped", st, Rollback(st, Facility(orgIdx, facIdx)))
    /\ facIdx' = facIdx + 1
    /\ UNCHANGED <<program, config, pc, run, orgIdx, snap, keyIn, keyOut,
                   recIn, recOut, catIn, catOut>>

NextDriver ==
    \/ Connect
    \/ FacilityImported
    \/ FacilityRejected
    \/ FacilityFailed
    \/ Close
    \/ Restart

SpecDriver == InitDriver /\ [][NextDriver]_vars

-----------------------------------------------------------------------------
(* The derived key on its own: build_generated_fields called on one row *)

KeyRooms == {<<"1", "0", "1">>, <<"F1", "0", "2">>, <<"0", "0", "7">>, <<"1", "a">>, <<>>}
KeyDates == {D_0305, D_0306, <<"b", "a", "d">>, <<>>}
KeyCodes == {PyInt(1), PyInt(12)}
KeyPrefixes == {PyNone, PyStr(<<"A", "-">>)}
KeySuffixes == {PyNone, PyStr(<<"X">>)}

InitKey ==
    /\ program \in Programs
    /\ keyIn \in [room : KeyRooms, date : KeyDates, facility_code : KeyCodes,
                  enquete_key_prefix : KeyPrefixes, enquete_key_suffix : KeySuffixes]
    /\ keyOut = PyNone
    /\ recIn = PyNone
    /\ recOut = PyNone
    /\ catIn = PyNone
    /\ catOut = PyNone
    /\ pc = "key"
    /\ config = [w \in ConfiguredFacilities |-> "plain"]
    /\ run = 1
    /\ orgIdx = 1
    /\ facIdx = 1
    /\ db = <<>>
    /\ cleared = {}
    /\ log = <<>>
    /\ outcome = [w \in ConfiguredFacilities |-> Pending]
    /\ snap = <<>>
    /\ clean = TRUE

\* build_generated_fields(row, mapping, facility_code, ...)["enquete_key"] on the
\* row holding keyIn's room and date, under the default mapping
BuildKey ==
    /\ pc = "key"
    /\ pc' = "keyed"
    /\ keyOut' = build_enquete_key(
                     program,
                     (H_rm :> keyIn.room) @@ (H_dt :> keyIn.date) @@ (H_sc :> <<>>),
                     normalize_mapping(program, M_default).m,
                     keyIn.facility_code.n,
                     keyIn.enquete_key_prefix, keyIn.enquete_key_suffix, <<>>)
    /\ UNCHANGED <<program, config, run, orgIdx, facIdx, db, cleared, log, outcome,
                   snap, clean, keyIn, recIn, recOut, catIn, catOut>>

NextKey == BuildKey

SpecKey == InitKey /\ [][NextKey]_vars

-----------------------------------------------------------------------------
(* The record builder on its own: the body of the loop "for row in         *)
(* records" of import_facility, called on one row under one mapping.       *)

H_nt == <<"n", "t">>

\* a conversion table that turns the guest "S" into white space
C_blank == PyDict(<<[k |-> <<"S">>, v |-> PyStr(<<" ">>)]>>)

\* a mapping with the room in its string section and the start date in its
\* date section
M_room_string ==
    PyDict(<<[k |-> K_string, v |-> Fields(<<<<"room_number", H_rm>>, <<"guest", H_gs>>>>)],
             [k |-> K_text, v |-> Fields(<<<<"comment", H_gs>>>>)],
             [k |-> K_integer, v |-> Fields(<<<<"nights", H_nt>>>>)],
             [k |-> K_date, v |-> Fields(<<<<"start_date", H_dt>>>>)],
             [k |-> K_datetime, v |-> Fields(<<<<"answered_at", H_dt>>>>)]>>)

\* a mapping with the room in its integer section and the start date in its
\* datetime section, which it declares before its date section
M_room_integer ==
    PyDict(<<[k |-> K_string, v |-> Fields(<<<<"guest", H_gs>>>>)],
             [k |-> K_integer, v |-> Fields(<<<<"room_number", H_rm>>, <<"nights", H_nt>>>>)],
             [k |-> K_datetime, v |-> Fields(<<<<"start_date", H_dt>>>>)],
             [k |-> K_date, v |-> Fields(<<<<"stay_date", H_dt>>>>)]>>)

RecMappings == {M_room_string, M_room_integer}

D_0305_0930 == D_0305 \o <<" ", "9", ":", "3", "0">>
D_0230 == <<"2", "0", "2", "4", "-", "0", "2", "-", "3", "0">>

RecRooms ==
    {<<"1", "0", "1">>, <<"F1", "0", "2">>, <<"1", "a">>, <<"8", "7", ".", "5">>,
     <<>>, <<"IS">>}
RecDates == {D_0305, D_0305_0930, D_0306, D_0230, <<"b", "a", "d">>, <<>>}
RecNights == {<<"3">>, <<"x">>, <<"i", "n", "f">>, <<>>}
RecGuests == {PyStr(<<"S">>), PyStr(<<"hKA">>), PyStr(<<"IS", " ">>), PyStr(<<>>), PyNone}

\* a conversion table that turns the room "1a" into the room 101
C_room == PyDict(<<[k |-> <<"1", "a">>, v |-> PyStr(<<"1", "0", "1">>)]>>)

\* a conversion table that turns one date into another, a text that is no
\* date into a date, and a date into a text that is no date
C_date ==
    PyDict(<<[k |-> D_0305, v |-> PyStr(D_0306)],
             [k |-> <<"b", "a", "d">>, v |-> PyStr(D_0305)],
             [k |-> D_0306, v |-> PyStr(<<"b", "a", "d">>)]>>)

\* the conversion tables a configuration may hold, each with the destination
\* column value_conversions names it for
RecConversions ==
    {[db_key |-> "guest", table |-> C_blank],
     [db_key |-> "room_number", table |-> C_room],
     [db_key |-> "start_date", table |-> C_date]}

\* the conversion table of recIn: the one it names, else the guest's
RecConversion(in) ==
    IF "conversion" \in DOMAIN in THEN in.conversion
    ELSE [db_key |-> "guest", table |-> C_blank]

\* the mapping of recIn as the configuration gives it: with the conversion
\* table at its root when one is configured
RecMapping(in) ==
    IF in.converted
    THEN PyDict(Append(in.mapping.d,
                       [k |-> CONVERSION_PREFIX, v |-> RecConversion(in).table]))
    ELSE in.mapping

\* the facility of recIn: value_conversions as normalize_value_conversions
\* returns them
RecFacility(in) ==
    [FacilityDefaults EXCEPT
        !.value_conversions =
            IF in.converted
            THEN <<[k |-> RecConversion(in).db_key, v |-> RecConversion(in).table]>>
            ELSE <<>>]

\* the row read_records builds; a guest of PyNone is a row without that cell
RecRow(in) ==
    [h \in {H_rm, H_dt, H_nt} \cup (IF in.guest = PyNone THEN {} ELSE {H_gs}) |->
        CASE h = H_rm -> in.room
          [] h = H_dt -> in.date
          [] h = H_nt -> in.nights
          [] OTHER -> in.guest.s]

\* record, generated fields and buffer row of one row under a raw mapping
BuildRow(prog, in, row) ==
    LET Resolved(mapping) ==
            BufferRow(prog, row, mapping, build_ordered_keys(mapping), RecFacility(in), 1)
    IN  Resolved(normalize_mapping(prog, RecMapping(in)).m)

InitRecord ==
    /\ program \in Programs
    /\ recIn \in [mapping : RecMappings, converted : BOOLEAN, room : RecRooms,
                  date : RecDates, nights : RecNights, guest : RecGuests]
    /\ recOut = PyNone
    /\ pc = "record"
    /\ keyIn = PyNone
    /\ keyOut = PyNone
    /\ catIn = PyNone
    /\ catOut = PyNone
    /\ config = [w \in ConfiguredFacilities |-> "plain"]
    /\ run = 1
    /\ orgIdx = 1
    /\ facIdx = 1
    /\ db = <<>>
    /\ cleared = {}
    /\ log = <<>>
    /\ outcome = [w \in ConfiguredFacilities |-> Pending]
    /\ snap = <<>>
    /\ clean = TRUE

\* make_record_from_row, build_generated_fields, record.update and
\* buffer.append on the row of recIn
BuildRecord ==
    /\ pc = "record"
    /\ pc' = "recorded"
    /\ recOut' = BuildRow(program, recIn, RecRow(recIn))
    /\ UNCHANGED <<program, config, run, orgIdx, facIdx, db, cleared, log, outcome,
                   snap, clean, keyIn, keyOut, recIn, catIn, catOut>>

NextRecord == BuildRecord

SpecRecord == InitRecord /\ [][NextRecord]_vars

-----------------------------------------------------------------------------
(* The record builder under value conversions: rows built with a           *)
(* conversion table for the guest, for the room or for the stay-start date *)

InitConverted ==
    /\ program \in Programs
    /\ recIn \in [mapping : RecMappings, converted : BOOLEAN,
                  conversion : RecConversions, room : RecRooms, date : RecDates,
                  nights : {<<"3">>}, guest : {PyStr(<<"S">>), PyNone}]
    /\ recOut = PyNone
    /\ pc = "record"
    /\ keyIn = PyNone
    /\ keyOut = PyNone
    /\ catIn = PyNone
    /\ catOut = PyNone
    /\ config = [w \in ConfiguredFacilities |-> "plain"]
    /\ run = 1
    /\ orgIdx = 1
    /\ facIdx = 1
    /\ db = <<>>
    /\ cleared = {}
    /\ log = <<>>
    /\ outcome = [w \in ConfiguredFacilities |-> Pending]
    /\ snap = <<>>
    /\ clean = TRUE

SpecConverted == InitConverted /\ [][NextRecord]_vars

-----------------------------------------------------------------------------
(* The integer section on its own: the record builder on rows whose one    *)
(* integer cell runs over every short text of an alphabet.                 *)

MaxCellLen == 4

\* an unclamped integer field
M_nights == PyDict(<<[k |-> K_integer, v |-> Fields(<<<<"nights", H_nt>>>>)]>>)

\* an integer field carrying the clamp [0, 100]: by its name in
\* enquetes_importer.py, by the suffix "2" of its section in google_spreadsheet.py
M_score ==
    PyDict(<<[k |-> K_integer, v |-> Fields(<<<<"comprehensive_evaluation", H_nt>>>>)],
             [k |-> K_integer \o <<"2">>,
              v |-> Fields(<<<<"comprehensive_evaluation", H_nt>>>>)]>>)

IntegerCells ==
    UNION {[1..n -> {"0", "1", "7", "F5", ".", "-", ",", "x"}] : n \in 0..MaxCellLen}
    \cup {<<"i", "n", "f">>, <<"n", "a", "n">>}

InitInteger ==
    /\ program \in Programs
    /\ recIn \in [mapping : {M_nights, M_score}, converted : {FALSE},
                  room : {<<"1", "0", "1">>}, date : {D_0305}, nights : IntegerCells,
                  guest : {PyNone}]
    /\ recOut = PyNone
    /\ pc = "record"
    /\ keyIn = PyNone
    /\ keyOut = PyNone
    /\ catIn = PyNone
    /\ catOut = PyNone
    /\ config = [w \in ConfiguredFacilities |-> "plain"]
    /\ run = 1
    /\ orgIdx = 1
    /\ facIdx = 1
    /\ db = <<>>
    /\ cleared = {}
    /\ log = <<>>
    /\ outcome = [w \in ConfiguredFacilities |-> Pending]
    /\ snap = <<>>
    /\ clean = TRUE

SpecInteger == InitInteger /\ [][NextRecord]_vars

-----------------------------------------------------------------------------
(* The mapping resolver on its own: the catalog layers of one location     *)
(* merged, and one reference resolved against them.                        *)

\* a mapping name that begins like a section name
K_dated == <<"d", "a", "t", "e", "d">>

\* what a layer's "mappings" key may hold
CatalogLayers ==
    {PyNone,
     PyDict(<<[k |-> K_default, v |-> M_default]>>),
     PyDict(<<[k |-> K_alt, v |-> M_alt]>>),
     PyDict(<<[k |-> K_default, v |-> M_alt], [k |-> K_alt, v |-> M_nights]>>),
     PyDict(<<[k |-> K_dated, v |-> M_nights]>>)}

\* what a "mapping" key may hold
CatalogReferences ==
    {PyNone, PyStr(<<>>), PyStr(<<" ">>), PyStr(K_default), PyStr(<<" ">> \o K_alt),
     PyStr(K_dated), PyStr(K_nope)}

InitCatalog ==
    /\ program \in Programs
    /\ catIn \in [global : CatalogLayers, organization : CatalogLayers,
                  location : CatalogLayers, reference : CatalogReferences]
    /\ catOut = PyNone
    /\ pc = "resolve"
    /\ keyIn = PyNone
    /\ keyOut = PyNone
    /\ recIn = PyNone
    /\ recOut = PyNone
    /\ config = [w \in ConfiguredFacilities |-> "plain"]
    /\ run = 1
    /\ orgIdx = 1
    /\ facIdx = 1
    /\ db = <<>>
    /\ cleared = {}
    /\ log = <<>>
    /\ outcome = [w \in ConfiguredFacilities |-> Pending]
    /\ snap = <<>>
    /\ clean = TRUE

\* import_facility up to resolve_mapping, for a location without import jobs
\* and without a language column
ResolveCatalog ==
    /\ pc = "resolve"
    /\ pc' = "resolved"
    /\ catOut' = resolve_mapping(
                     program,
                     AvailableMappings(program, CatalogOf(catIn.global).d,
                                        [mappings |-> catIn.organization],
                                        [mappings |-> catIn.location]),
                     MappingReference([mapping |-> PyNone],
                                      [mapping |-> catIn.reference]))
    /\ UNCHANGED <<program, config, run, orgIdx, facIdx, db, cleared, log, outcome,
                   snap, clean, keyIn, keyOut, recIn, recOut, catIn>>

NextCatalog == ResolveCatalog

SpecCatalog == InitCatalog /\ [][NextCatalog]_vars

-----------------------------------------------------------------------------
(* Properties.  They read the configuration, the statement log of the run  *)
(* and the outcome main recorded for each facility.                        *)

ConfigOf(w) == Profile(config[w])

Finished(w) == outcome[w].result # "pending"

\* the positions in the log of the statements of facility w with an op in ops
Issued(w, ops) == {i \in 1..Len(log) : log[i].who = w /\ log[i].op \in ops}

Writes == {"DELETE", "INSERT"}

\* the write at position i was committed by the facility that issued it
CommittedWrite(i) ==
    \E j \in (i + 1)..Len(log) : log[j].who = log[i].who /\ log[j].op = "COMMIT"

\* facility v comes after facility w in the order main processes them
ComesAfter(v, w) == v[1] > w[1] \/ (v[1] = w[1] /\ v[2] > w[2])

DeleteDisabled(w) == ConfigOf(w).delete.t # "none" /\ ~Truthy(ConfigOf(w).delete)

\* the stages of import_facility at which a configuration error shows
ConfigurationErrors == {"facility_code", "spreadsheet_id", "mapping"}

\* C1: every configuration error of a facility (missing facility_code, missing
\* spreadsheet id, unknown mapping name, malformed mapping section) is caught
\* by the per-facility handler: the facility is rolled back and skipped, never
\* failed, and the run goes on.
C1_ConfigurationErrorIsSkipped ==
    \A w \in ConfiguredFacilities :
        outcome[w].origin \in ConfigurationErrors =>
            /\ outcome[w].result = "skipped"
            /\ Issued(w, {"ROLLBACK"}) # {}
            /\ pc = "aborted" => \E v \in ConfiguredFacilities :
                                     ComesAfter(v, w) /\ outcome[v].result = "failed"

\* C2: every facility-level transaction is atomic: once a facility is finished,
\* either all of its DELETEs and INSERTs, across all of its import jobs, are
\* committed, or none of them is.
C2_FacilityTransactionAtomic ==
    \A w \in ConfiguredFacilities :
        Finished(w) =>
            \/ \A i \in Issued(w, Writes) : CommittedWrite(i)
            \/ \A i \in Issued(w, Writes) : ~CommittedWrite(i)

FacilityCodes == {PyInt(1), PyInt(2)}

RowsOf(rows, code) == SelectSeq(rows, LAMBDA r : Get(r, "facility_code") = code)

WithoutImportDate(rows) ==
    [i \in 1..Len(rows) |-> SelectSeq(rows[i], LAMBDA e : e.k # "import_date")]

\* the program has run to its end at least twice, no facility skipped or failed
Repeated == run > 1 /\ pc = "done" /\ clean

\* the rows of a facility code in a table are those the first run left
SameRows(org, table, code) ==
    WithoutImportDate(RowsOf(db[org][table], code))
        = WithoutImportDate(RowsOf(snap[org][table], code))

\* a facility of the organization writes the pair with its DELETE disabled
AppendedTo(org, table, code) ==
    /\ program = "EI"
    /\ \E w \in FacilitiesOf(org) :
          /\ DeleteDisabled(w)
          /\ ConfigOf(w).facility_code = code
          /\ FacilityTable(ConfigOf(w)) = table

\* C3 as stated: running the import twice on the same rows leaves every table
\* holding the same rows for every facility as running it once, import
\* timestamp aside.
C3_Idempotent ==
    Repeated =>
        \A org \in 1..Len(Corporations), table \in Tables, code \in FacilityCodes :
            SameRows(org, table, code)

\* C3 amended: running the import twice on the same rows leaves a table holding
\* the same rows for a facility as running it once, import timestamp aside,
\* provided no facility writes that table and facility code with its DELETE
\* disabled (delete: false, which enquetes_importer.py honours by appending).
C3_IdempotentUnlessAppending ==
    Repeated =>
        \A org \in 1..Len(Corporations), table \in Tables, code \in FacilityCodes :
            ~AppendedTo(org, table, code) => SameRows(org, table, code)

C3_Witness ==
    /\ Repeated
    /\ \E w \in ConfiguredFacilities :
          /\ outcome[w].result = "ok" /\ outcome[w].buffered > 0
          /\ ~AppendedTo(w[1], FacilityTable(ConfigOf(w)), ConfigOf(w).facility_code)

\* the stages at which a failure is not a configuration error
OtherFailures == {"network", "database", "cell"}

\* C4: a failure of a facility that is not a configuration error (network,
\* database, or an exception raised while its rows are built) is rolled back
\* and re-raised: the facility is failed, the run is aborted and no later
\* facility of any organization is processed.
C4_OtherFailureAborts ==
    \A w \in ConfiguredFacilities :
        outcome[w].origin \in OtherFailures =>
            /\ outcome[w].result = "failed"
            /\ pc = "aborted"
            /\ Issued(w, {"ROLLBACK"}) # {}
            /\ \A v \in ConfiguredFacilities :
                   ComesAfter(v, w) => outcome[v].result = "pending"

\* C5: a location configured with delete: false whose worksheet yields no data
\* row issues no DELETE and no INSERT.
C5_DisabledDeleteWithoutRows ==
    \A w \in ConfiguredFacilities :
        (outcome[w].result = "ok" /\ DeleteDisabled(w) /\ outcome[w].fetched = 0)
            => Issued(w, Writes) = {}

\* C6: within one organization-run a DELETE is issued at most once for any
\* pair of destination table and facility code.
C6_DeleteAtMostOnce ==
    \A i, j \in 1..Len(log) :
        (/\ i < j
         /\ log[i].op = "DELETE" /\ log[j].op = "DELETE"
         /\ log[i].who[1] = log[j].who[1])
            => ~(log[i].table = log[j].table /\ log[i].code = log[j].code)

\* the location was imported and its insert buffer was empty
EmptyBuffer(w) == outcome[w].result = "ok" /\ outcome[w].buffered = 0

\* the location has one destination table, that of the facility
OneDestination(w) == program = "EI" \/ ~Truthy(ConfigOf(w).imports)

\* the location issued and committed the DELETE of its rows on its table
DeletedOwnRows(w) ==
    \E i \in Issued(w, {"DELETE"}) :
        /\ log[i].table = FacilityTable(ConfigOf(w))
        /\ log[i].code = ConfigOf(w).facility_code
        /\ CommittedWrite(i)

\* an earlier facility of the same organization-run issued the DELETE of the pair
ClearedEarlier(w) ==
    \E i \in 1..Len(log) :
        /\ log[i].op = "DELETE"
        /\ log[i].who[1] = w[1] /\ ComesAfter(w, log[i].who)
        /\ log[i].table = FacilityTable(ConfigOf(w))
        /\ log[i].code = ConfigOf(w).facility_code

\* C7 as stated: a location whose insert buffer is empty still issues the
\* DELETE of its facility's rows on its destination table and commits it,
\* without any INSERT.
C7_EmptyBufferStillDeletes ==
    \A w \in ConfiguredFacilities :
        (EmptyBuffer(w) /\ OneDestination(w)) =>
            Issued(w, {"INSERT"}) = {} /\ DeletedOwnRows(w)

\* C7 amended: a location whose insert buffer is empty issues no INSERT and
\* commits; it first issues the DELETE of its facility's rows on its
\* destination table, unless its DELETE is disabled (delete: false,
\* enquetes_importer.py) or the DELETE of the same table and facility code was
\* already issued earlier in the organization-run (google_spreadsheet.py).
C7_EmptyBufferDeletesUnlessExempt ==
    \A w \in ConfiguredFacilities :
        EmptyBuffer(w) =>
            /\ Issued(w, {"INSERT"}) = {}
            /\ Issued(w, {"COMMIT"}) # {}
            /\ \A i \in Issued(w, {"DELETE"}) : CommittedWrite(i)
            /\ (/\ OneDestination(w)
                /\ ~(program = "EI" /\ DeleteDisabled(w))
                /\ ~(program = "GS" /\ ClearedEarlier(w)))
                   => DeletedOwnRows(w)

C7_Witness ==
    \E w \in ConfiguredFacilities :
        EmptyBuffer(w) /\ outcome[w].fetched > 0 /\ DeletedOwnRows(w)

\* the location names a discriminator column
LanguageColumn(w) == normalize_optional_string(ConfigOf(w).language_column).t # "none"

\* the data rows of the location's worksheet, room and discriminator cells
WorksheetRows(w) == read_records(Worksheets[ConfigOf(w).spreadsheet_id], {H_rm, H_lg}).l

\* the row's normalized discriminator value names a resolved variant
Matches(w, row) ==
    /\ normalize_language_key(PyStr(row[H_lg])).t # "none"
    /\ normalize_language_key(PyStr(row[H_lg])).s \in outcome[w].languages

MatchingRows(w) == SelectSeq(WorksheetRows(w), LAMBDA row : Matches(w, row))

\* the rows of the location's INSERT statement, none when it issued no INSERT
InsertedRows(w) ==
    IF Issued(w, {"INSERT"}) = {} THEN <<>>
    ELSE log[CHOOSE i \in Issued(w, {"INSERT"}) : TRUE].rows

\* the location resolved its language variants, none of them a default
VariantsWithoutDefault(w) ==
    /\ program = "EI"
    /\ LanguageColumn(w)
    /\ outcome[w].languages # {}
    /\ K_default \notin outcome[w].languages

\* C8: with a discriminator column configured and no default variant, a row
\* whose normalized discriminator value matches no variant is left out of the
\* insert buffer, and only such rows: the rows that match a variant are built
\* and inserted, and the facility is neither skipped nor failed by the row.
C8_OnlyUnmatchedRowsExcluded ==
    \A w \in ConfiguredFacilities :
        VariantsWithoutDefault(w) =>
            /\ outcome[w].result = "ok" \/ outcome[w].origin = "database"
            /\ outcome[w].buffered = Len(MatchingRows(w))
            /\ outcome[w].result = "ok" =>
                   [i \in 1..Len(InsertedRows(w)) |->
                       Get(InsertedRows(w)[i], "room_number")]
                   = [i \in 1..Len(MatchingRows(w)) |-> PyStr(MatchingRows(w)[i][H_rm])]

C8_Witness ==
    \E w \in ConfiguredFacilities :
        /\ VariantsWithoutDefault(w)
        /\ outcome[w].result = "ok"
        /\ outcome[w].buffered > 0
        /\ outcome[w].buffered < outcome[w].fetched

\* the location declares a variant whose normalized name is "default"
ExplicitDefault(w) ==
    \E i \in 1..Len(CatalogOf(ConfigOf(w).language_mappings).d) :
        normalize_language_key(PyStr(CatalogOf(ConfigOf(w).language_mappings).d[i].k))
            = PyStr(K_default)

\* the location or its organization gives a plain mapping reference
PlainReference(w) == MappingReference(Corporations[w[1]], ConfigOf(w)).t # "none"

\* C9 as stated: with a discriminator column, a per-language resolution that
\* does not fail returns a map that contains a "default" entry.
C9_AlwaysDefault ==
    \A w \in ConfiguredFacilities :
        (program = "EI" /\ LanguageColumn(w) /\ outcome[w].languages # {})
            => K_default \in outcome[w].languages

\* C9 amended: with a discriminator column, a per-language resolution that does
\* not fail returns a map that contains a "default" entry exactly when a
\* default variant is declared or a plain mapping reference is given (by the
\* location or its organization); it fails when there is neither a variant nor
\* a plain mapping reference.
C9_DefaultWhenDeclaredOrReferenced ==
    \A w \in ConfiguredFacilities :
        (program = "EI" /\ LanguageColumn(w)) =>
            /\ outcome[w].languages # {} =>
                   (K_default \in outcome[w].languages
                        <=> (ExplicitDefault(w) \/ PlainReference(w)))
            /\ (/\ Finished(w)
                /\ ~Truthy(ConfigOf(w).language_mappings)
                /\ ~PlainReference(w))
                   => outcome[w].result = "skipped" /\ outcome[w].origin = "language"

C9_Witness ==
    \E w \in ConfiguredFacilities :
        /\ program = "EI" /\ LanguageColumn(w)
        /\ ~ExplicitDefault(w)
        /\ outcome[w].languages = {K_default, <<"j", "a">>}

\* the tie-break of the derived key: the facility code in enquetes_importer.py,
\* the constant "1" in google_spreadsheet.py
TieBreak == IF program = "EI" THEN IntToStr(keyIn.facility_code.n) ELSE <<"1">>

\* YYYYMMDD of the parsable dates of KeyDates
YYYYMMDD ==
    IF keyIn.date = D_0305 THEN <<"2", "0", "2", "4", "0", "3", "0", "5">>
    ELSE <<"2", "0", "2", "4", "0", "3", "0", "6">>

\* C10: for a purely numeric room r, a parsable stay-start date d and tie-break
\* t the derived key is r-YYYYMMDD(d)-t, with the configured prefix put before
\* it and the configured suffix after it and a hyphen: "101-20240305-1" for
\* room 101 on 2024-03-05 with tie-break 1, "A-101-20240305-1-X" with prefix
\* "A-" and suffix "X".
C10_DerivedKeyFormat ==
    (/\ pc = "keyed"
     /\ keyIn.room \in {<<"1", "0", "1">>, <<"0", "0", "7">>}
     /\ keyIn.date \in {D_0305, D_0306})
        => keyOut = PyStr(
               (IF keyIn.enquete_key_prefix = PyNone THEN <<>>
                ELSE keyIn.enquete_key_prefix.s)
               \o keyIn.room \o <<"-">> \o YYYYMMDD \o <<"-">> \o TieBreak
               \o (IF keyIn.enquete_key_suffix = PyNone THEN <<>>
                   ELSE <<"-">> \o keyIn.enquete_key_suffix.s))


\* the record builder has been applied to the row of recIn
Recorded == pc = "recorded"

\* the room cell is blank: empty or white space only
BlankRoom == normalize_cell_value(PyStr(recIn.room)) = <<>>

\* the stay-start cell is blank or no date
UnparsableDates == {<<>>, <<"b", "a", "d">>, D_0230}

\* what the record builder gives for the row of recIn with its room and date
\* cells replaced
WithRoomAndDate(room, date) ==
    BuildRow(program, recIn, RecRow([recIn EXCEPT !.room = room, !.date = date]))

\* the columns that read the room cell or the stay-start cell
KeyColumns == {"room_number", "start_date", "stay_date", "answered_at", "enquete_key"}

\* the two buffer rows have the same columns and agree outside KeyColumns
SameOtherColumns(a, b) ==
    /\ [i \in 1..Len(a.d) |-> a.d[i].k] = [i \in 1..Len(b.d) |-> b.d[i].k]
    /\ \A i \in 1..Len(a.d) : a.d[i].k \notin KeyColumns => a.d[i].v = b.d[i].v

\* the row of recIn is built as the same row with a numeric room and a
\* parsable date is: it raises only if that row does, and its other columns
\* hold the same values
BuiltAsAnyOtherRow(other) ==
    /\ IsRaise(recOut) <=> IsRaise(other)
    /\ ~IsRaise(recOut) => SameOtherColumns(recOut, other)

NonNumericRoom == ~BlankRoom /\ ~isdecimal(z2h(normalize_cell_value(PyStr(recIn.room))))

\* C12: for a row whose room value is present but not purely numeric after
\* width-folding, the room column declared in the string section or in the
\* integer section, the derived key is null and the row is imported as the
\* same row with a numeric room is.
C12_NullKeyForNonNumericRoom ==
    (Recorded /\ NonNumericRoom) =>
        /\ BuiltAsAnyOtherRow(WithRoomAndDate(<<"1", "0", "1">>, recIn.date))
        /\ ~IsRaise(recOut) => Get(recOut.d, "enquete_key") = PyNone


\* the integer cell of recIn, width-folded
FoldedCell == z2h(normalize_cell_value(PyStr(recIn.nights)))

\* an optional minus sign, then decimal digits with an optional fraction
IsNumeral(s) ==
    LET body == IF s # <<>> /\ Head(s) = "-" THEN Tail(s) ELSE s
        parts == Split(body, {"."})
    IN  /\ Len(parts) <= 2
        /\ \A i \in 1..Len(parts) : AllAsciiDigits(parts[i])
        /\ \E i \in 1..Len(parts) : parts[i] # <<>>

\* the numeral truncated toward zero
TruncatedNumeral(s) ==
    LET negative == Head(s) = "-"
        whole == Split(IF negative THEN Tail(s) ELSE s, {"."})[1]
    IN  IF negative THEN -StrToInt(whole) ELSE StrToInt(whole)

C20_UnclampedInteger ==
    (Recorded /\ recIn.mapping = M_nights) =>
        /\ ~IsRaise(recOut)
        /\ Get(recOut.d, "nights")
               = IF IsNumeral(RemoveChar(FoldedCell, ","))
                 THEN PyInt(TruncatedNumeral(RemoveChar(FoldedCell, ",")))
                 ELSE PyNone


\* the column of the one integer field of recIn's mapping
IntegerColumn == IF recIn.mapping = M_score THEN "comprehensive_evaluation" ELSE "nights"

\* C14: no content of an integer cell makes record construction raise: a cell
\* that cannot be parsed as a number (other text, inf, nan) gives a null column
\* in a row that is built.
C14_UnparsableCellIsNull ==
    (Recorded /\ ~IsNumeral(RemoveChar(FoldedCell, ","))) =>
        /\ ~IsRaise(recOut)
        /\ Get(recOut.d, IntegerColumn) = PyNone


\* the guest cell is empty, absent or white space only
BlankGuest == normalize_cell_value(recIn.guest) = <<>>

\* the columns of the string section of recIn's mapping
StringColumns == IF recIn.mapping = M_room_string THEN {"room_number", "guest"} ELSE {"guest"}

\* C15: a field of the string section whose source cell is empty, absent or
\* all white space gives a null column, and no string column of a record holds
\* the empty string.
C15_BlankStringIsNull ==
    (Recorded /\ ~IsRaise(recOut)) =>
        /\ BlankGuest => Get(recOut.d, "guest") = PyNone
        /\ (BlankRoom /\ "room_number" \in StringColumns)
               => Get(recOut.d, "room_number") = PyNone
        /\ \A column \in StringColumns : Get(recOut.d, column) # PyStr(<<>>)

C15_Witness ==
    /\ Recorded /\ ~IsRaise(recOut)
    /\ recIn.guest = PyStr(<<"IS", " ">>)
    /\ recIn.mapping = M_room_string /\ recIn.room = <<"IS">>
    /\ Get(recOut.d, "guest") = PyNone
    /\ Get(recOut.d, "room_number") = PyNone


\* the stay-start cell holds a date the parser reads
ParsableDate == recIn.date \in {D_0305, D_0305_0930, D_0306}

\* the field recIn's mapping declares under its datetime section, and the one
\* under its date section
DatetimeColumn == IF recIn.mapping = M_room_string THEN "answered_at" ELSE "start_date"
DateColumn == IF recIn.mapping = M_room_string THEN "start_date" ELSE "stay_date"

\* the sections of the resolved mapping that hold the column
SectionsOf(column) ==
    {section \in Range(Sections) :
        FieldOf(normalize_mapping(program, RecMapping(recIn)).m, section, column) # PyNone}

\* C16: a field declared under the datetime section stays in the datetime
\* section of the resolved mapping and its column holds the full timestamp of a
\* parsable cell; a field declared under the date section holds the calendar
\* date only.
C16_DatetimeKeepsTime ==
    (Recorded /\ ParsableDate /\ ~IsRaise(recOut)) =>
        /\ SectionsOf(DatetimeColumn) = {"datetime"}
        /\ Get(recOut.d, DatetimeColumn).t = "datetime"
        /\ recIn.date = D_0305_0930 =>
               /\ Get(recOut.d, DatetimeColumn).hh = 9
               /\ Get(recOut.d, DatetimeColumn).mi = 30
        /\ SectionsOf(DateColumn) = {"date"}
        /\ Get(recOut.d, DateColumn) = [t |-> "date", y |-> 2024, m |-> 3,
                                        d |-> IF recIn.date = D_0306 THEN 6 ELSE 5]


\* the destination columns recIn's mapping declares under a section name
DeclaredUnder(name) ==
    IF Has(recIn.mapping.d, name)
    THEN [j \in 1..Len(Get(recIn.mapping.d, name).d) |-> Get(recIn.mapping.d, name).d[j].k]
    ELSE <<>>

\* the column list of the mapping: string, text, integer, date, datetime, each
\* in declaration order, then the three generated columns
DeclaredColumns ==
    DeclaredUnder(K_string) \o DeclaredUnder(K_text) \o DeclaredUnder(K_integer)
    \o DeclaredUnder(K_date) \o DeclaredUnder(K_datetime)
    \o <<"facility_code", "enquete_key", "import_date">>

\* C17: every row of the insert buffer has exactly one value per column of the
\* list: the columns of the string, text, integer, date and datetime sections
\* in that order, each in declaration order, then facility_code, enquete_key
\* and import_date.
C17_ColumnOrder ==
    (Recorded /\ ~IsRaise(recOut)) =>
        [i \in 1..Len(recOut.d) |-> recOut.d[i].k] = DeclaredColumns


\* the name catIn's reference stands for: "default" for a null or blank one
ReferencedName ==
    IF normalize_cell_value(catIn.reference) = <<>> THEN K_default
    ELSE normalize_cell_value(catIn.reference)

\* the layers of catIn, the global one first
Layers == <<catIn.global, catIn.organization, catIn.location>>

\* the layers that declare the referenced name
Declaring == {i \in 1..3 : Layers[i] # PyNone /\ Has(Layers[i].d, ReferencedName)}

\* C18: catalogs merge by layered override: a name that a layer declares
\* resolves to the definition given by the last of the layers global,
\* organization, location that declares it (a null or blank reference standing
\* for "default"), whatever the other entries of the layers.
C18_LayeredOverride ==
    (pc = "resolved" /\ Declaring # {}) =>
        catOut = normalize_mapping(
                     program,
                     Get(Layers[CHOOSE i \in Declaring : \A j \in Declaring : j <= i].d,
                         ReferencedName))

\* the entries of the location's explicit list of import jobs
ImportEntries(w) ==
    IF Truthy(ConfigOf(w).imports) /\ ConfigOf(w).imports.t = "list"
    THEN ConfigOf(w).imports.l
    ELSE <<>>

\* the destination of an entry: its table override, else the location's table
DestinationOf(w, entry) ==
    IF entry.t = "dict" /\ Has(entry.d, K_table) THEN Get(entry.d, K_table).s
    ELSE FacilityTable(ConfigOf(w))

\* the headers the mappings of the listed jobs refer to, all jobs together
JobHeaders == {H_rm, H_sc, H_dt, H_gs}

\* the positions in the log of the INSERT statements of the j-th job of w
InsertsOfJob(w, j) == {i \in Issued(w, {"INSERT"}) : log[i].job = j}

\* the room cells of the non-blank data rows of the worksheet, in sheet order
FetchedRooms(w) == [r \in 1..Len(WorksheetRows(w)) |-> PyStr(WorksheetRows(w)[r][H_rm])]

\* C19: a location with an explicit list of n import jobs reads its worksheet
\* once, asking for the headers of all its jobs together, and when the import
\* succeeds each of the n jobs has issued one INSERT into its own destination
\* (the entry's table override, else the location's table) holding one record
\* per non-blank row of the worksheet, in sheet order.
C19_JobsShareOneFetch ==
    \A w \in ConfiguredFacilities :
        program = "GS" /\ ImportEntries(w) # <<>> =>
            /\ Cardinality(Issued(w, {"FETCH"})) <= 1
            /\ outcome[w].result = "ok" =>
                   /\ \E i \in Issued(w, {"FETCH"}) : log[i].rows = JobHeaders
                   /\ outcome[w].fetched = Len(WorksheetRows(w))
                   /\ Cardinality(Issued(w, {"INSERT"})) = Len(ImportEntries(w))
                   /\ \A j \in 1..Len(ImportEntries(w)) :
                          \E i \in InsertsOfJob(w, j) :
                              /\ InsertsOfJob(w, j) = {i}
                              /\ log[i].table = DestinationOf(w, ImportEntries(w)[j])
                              /\ [r \in 1..Len(log[i].rows) |->
                                     Get(log[i].rows[r], "room_number")]
                                 = FetchedRooms(w)

C19_Witness ==
    \E w \in ConfiguredFacilities :
        /\ program = "GS"
        /\ Len(ImportEntries(w)) = 2
        /\ outcome[w].result = "ok"
        /\ outcome[w].fetched = 2
        /\ Cardinality(Issued(w, {"FETCH"})) = 1
        /\ \E i \in InsertsOfJob(w, 1), k \in InsertsOfJob(w, 2) :
               /\ log[i].table # log[k].table
               /\ Len(log[i].rows) = 2
               /\ Len(log[k].rows) = 2

\* the destination tables of the jobs of location w
Destinations(w) ==
    IF program = "GS" /\ ImportEntries(w) # <<>>
    THEN {DestinationOf(w, ImportEntries(w)[j]) : j \in 1..Len(ImportEntries(w))}
    ELSE {FacilityTable(ConfigOf(w))}

\* the rows of a table that carry another facility code than code
OtherRows(rows, code) == SelectSeq(rows, LAMBDA r : Get(r, "facility_code") # code)

\* every DELETE is filtered by the configured code of the location that issued
\* it, goes to one of its destinations, and so does every INSERT, whose rows
\* all carry that code
OwnStatements ==
    \A i \in 1..Len(log) :
        log[i].op \in Writes =>
            /\ log[i].code = ConfigOf(log[i].who).facility_code
            /\ log[i].table \in Destinations(log[i].who)
            /\ \A r \in 1..Len(log[i].rows) :
                   Get(log[i].rows[r], "facility_code") = log[i].code

\* what the import of location w leaves alone in the step it takes
FrameOf(w) ==
    \A o \in 1..Len(Corporations), table \in Tables :
        IF o = w[1] /\ table \in Destinations(w) /\ ConfigOf(w).facility_code # Absent
        THEN OtherRows(db'[o][table], ConfigOf(w).facility_code)
             = OtherRows(db[o][table], ConfigOf(w).facility_code)
        ELSE db'[o][table] = db[o][table]

\* C21: the import of a location changes only rows of its own facility code
\* in the destination tables of its jobs: its DELETE is filtered by that code,
\* the rows it inserts carry it, and the rows of every other facility code, of
\* every other table and of every other organization's database are after the
\* import what they were before it, whether the import succeeds, is skipped
\* or fails.
C21_OnlyOwnRowsChange ==
    /\ []OwnStatements
    /\ [][IF InLoop THEN FrameOf(Facility(orgIdx, facIdx)) ELSE db' = db]_vars

C21_Witness ==
    \E w \in ConfiguredFacilities, table \in Tables :
        /\ outcome[w].result = "ok"
        /\ \E i \in Issued(w, {"DELETE"}) : log[i].table = table
        /\ \E i \in Issued(w, {"INSERT"}) : log[i].table = table
        /\ \E r \in 1..Len(db[w[1]][table]) :
               /\ Get(db[w[1]][table][r], "facility_code") = ConfigOf(w).facility_code
               /\ Get(db[w[1]][table][r], "import_date").at = run
        /\ \E r \in 1..Len(db[w[1]][table]) :
               /\ Get(db[w[1]][table][r], "facility_code") # ConfigOf(w).facility_code
               /\ Get(db[w[1]][table][r], "import_date").at = 0

\* the headers the mappings of location w refer to, for the locations that
\* list their jobs or name the mapping with the guest column
HeadersNeeded(w) ==
    IF program = "GS" /\ ImportEntries(w) # <<>> THEN JobHeaders
    ELSE IF ConfigOf(w).mapping = PyStr(K_alt) THEN {H_rm, H_gs, H_dt}
    ELSE {}

\* the normalized headers of the first row of the worksheet of location w
HeadersPresent(w) ==
    {normalize_cell_value(PyStr(Worksheets[ConfigOf(w).spreadsheet_id][1][i])) :
        i \in 1..Len(Worksheets[ConfigOf(w).spreadsheet_id][1])}

\* the worksheet of location w has a header row that lacks a header it needs
MissingHeader(w) ==
    /\ ConfigOf(w).facility_code # Absent
    /\ ConfigOf(w).spreadsheet_id # ""
    /\ Worksheets[ConfigOf(w).spreadsheet_id] # <<>>
    /\ HeadersNeeded(w) \ HeadersPresent(w) # {}

\* location w cannot pass the checks import_facility makes before it writes
FailsBeforeWriting(w) ==
    \/ ConfigOf(w).facility_code = Absent
    \/ ConfigOf(w).spreadsheet_id = ""
    \/ MissingHeader(w)

\* the statement at position i of the log comes after the read of the
\* worksheet by the same location
AfterFetch(i) ==
    \E j \in 1..(i - 1) : log[j].who = log[i].who /\ log[j].op = "FETCH"

\* no write comes before the worksheet is read and validated, and a location
\* that fails a check made before that has issued no write
NoWriteBeforeValidation ==
    /\ \A i \in 1..Len(log) : log[i].op \in Writes => AfterFetch(i)
    /\ \A w \in ConfiguredFacilities :
           (\/ Finished(w) /\ FailsBeforeWriting(w)
            \/ /\ outcome[w].result = "skipped"
               /\ outcome[w].origin \in {"facility_code", "spreadsheet_id", "mapping",
                                          "header"})
           => Issued(w, Writes) = {}

\* C22: import_facility checks the facility code, resolves every mapping and
\* job, reads the worksheet and validates the required headers before it
\* issues its first DELETE; so a location without a facility code, without a
\* spreadsheet id or whose worksheet lacks a required header, be it the
\* header of one job among several, has issued no DELETE and no INSERT, and
\* the step that skips it leaves every table as it was.
C22_ChecksPrecedeFirstDelete ==
    /\ []NoWriteBeforeValidation
    /\ [][\A w \in ConfiguredFacilities :
              outcome'[w] # outcome[w] /\ FailsBeforeWriting(w) => db' = db]_vars

C22_Witness ==
    \E w \in ConfiguredFacilities :
        /\ program = "GS"
        /\ Len(ImportEntries(w)) = 2
        /\ MissingHeader(w)
        /\ outcome[w].result = "skipped"
        /\ outcome[w].origin = "header"
        /\ Issued(w, Writes) = {}
        /\ \A table \in Destinations(w) :
               \E r \in 1..Len(db[w[1]][table]) :
                   db[w[1]][table][r] = StaleRow(ConfigOf(w).facility_code.n)

\* the positions in the log of the DELETE statements of the organization in
\* process for the pair of table and code
DeletesOf(table, code) ==
    {i \in 1..Len(log) : /\ log[i].op = "DELETE"
                         /\ log[i].who[1] = orgIdx
                         /\ log[i].table = table
                         /\ log[i].code = code}

\* the statement at position i was rolled back by the facility that issued it
RolledBack(i) ==
    \E j \in (i + 1)..Len(log) : log[j].who = log[i].who /\ log[j].op = "ROLLBACK"

\* C23: while main goes on with the facilities of an organization, a pair of
\* destination table and facility code is in the cleared set only if a DELETE
\* for it was committed in this organization-run, and every INSERT of the
\* organization-run comes after a DELETE for its pair that was not rolled back.
C23_ClearedOnlyWhileCommitted ==
    program = "GS" /\ pc = "facility" =>
        /\ \A pair \in cleared :
               \E i \in DeletesOf(pair[1], pair[2]) : CommittedWrite(i)
        /\ \A k \in 1..Len(log) :
               log[k].op = "INSERT" /\ log[k].who[1] = orgIdx =>
                   \E i \in DeletesOf(log[k].table, log[k].code) :
                       i < k /\ ~RolledBack(i)

\* the derived key of the built record, and the part of it between its
\* first two hyphens
BuiltKey == Get(recOut.d, "enquete_key")
BuiltKeyDate == Split(BuiltKey.s, {"-"})[2]

\* C24: a built record with a derived key has a room_number and a start_date,
\* and the YYYYMMDD part of the key is the calendar date of its start_date
\* column, with or without a conversion table for the guest, the room or the
\* stay-start date.
C24_KeyAgreesWithColumns ==
    (Recorded /\ ~IsRaise(recOut) /\ BuiltKey # PyNone) =>
        /\ Get(recOut.d, "room_number") # PyNone
        /\ Get(recOut.d, "start_date") # PyNone
        /\ BuiltKeyDate = strftime_Ymd(Get(recOut.d, "start_date"))

====
